---------------------------- MODULE Spec2Model ----------------------------
(***************************************************************************)
(* Model of the duplicate-image detection pipeline of delo                 *)
(* (src-tauri/src/detection/duplicate.rs, src-tauri/src/detection/lsh.rs). *)
(*                                                                         *)
(* One behaviour is a sequence of calls of detect_duplicates made one      *)
(* after the other (find_duplicates is a synchronous command) with the     *)
(* same request on an unchanged file system.  A call is cut into steps     *)
(* where the code lets a scheduler or an unordered container decide:       *)
(*   - the order in which the hashing batches take the results lock,       *)
(*   - the order in which the batch_add chunks take the bucket lock,       *)
(*   - the iteration order of the HashSet of candidate pairs (the order    *)
(*     in which the edges are unioned),                                    *)
(*   - the iteration order of the HashMap group_map.                       *)
(* The verification closure reads and writes the static SIMILARITY_CACHE   *)
(* from the workers of par_iter without a lock: with two or more pairs the *)
(* model lets inserts be lost (Verify) or the process abort (VerifyAbort). *)
(*                                                                         *)
(* Image indices are 0-based as in the source.  Strings are sequences of   *)
(* byte values.  An f32 score is the exact fraction [n, d] (every score    *)
(* the model computes is exactly representable in f32).                    *)
(***************************************************************************)
EXTENDS Integers, Sequences, FiniteSets, TLC

(***************************************************************************)
(* Bounds of the model.  The size constants of the source are scaled down  *)
(* so that TLC reaches the cases they delimit; the value in the source is  *)
(* given with each.                                                        *)
(***************************************************************************)
\* largest number of image files in the folders of a request
MaxImages == 5
\* every file vector up to this length is a request; longer ones list their
\* contents in ascending order
ExhaustiveLen == 3
\* number of calls of detect_duplicates in a behaviour
MaxRuns == 2
\* the first MaxMetaFail files are those whose metadata may be unreadable
MaxMetaFail == 1
\* the number of cache inserts of one call that the model lets be lost
MaxLost == 1
\* number of add and batch_add calls on one LSHIndex in SpecIndex
MaxCalls == 2
\* SpecLarge: compute_candidate_pairs takes the batched path for more
\* fingerprints than this (5000 in lsh.rs:316); in Spec every input stays on
\* the single-index path
SmallDatasetMax == 3
\* SpecLarge: batch_size of compute_pairs_large_dataset for the bit-hash
\* algorithms (5000 in lsh.rs:356; Exact has twice as much, lsh.rs:355)
LargeBatch == 2
\* SpecOverlap: the threads of the pool that runs the par_iter of one call
NumThreads == 2
\* SpecOrb: the most descriptors serialize_features keeps (50 in orb.rs:418)
MaxFeatures == 2
\* SpecOrb: bytes of Descriptor.data (32 in orb.rs:76)
DescBytes == 2
\* SpecSelect: max_points of detect_fast_keypoints (500 in orb.rs:31)
MaxPoints == 3
\* SpecSelect: the most corners the scan finds
MaxDetected == 5
\* max_distance of match_descriptors, for descriptors of 8 * DescBytes bits
\* (80 of 256 bits in orb.rs:521)
max_distance == 5
\* SpecDsu: the number of elements of the DisjointSet
DsuSize == 4
\* BATCH_SIZE of compute_image_hashes (500 in duplicate.rs:113)
BATCH_SIZE == 3
\* batch_add adds serially up to this many hashes (500 in lsh.rs:230)
SerialAddMax == 2
\* chunk length of the parallel batch_add (1000 in lsh.rs:265)
ChunkSize == 2
\* max_bucket_size of LSHIndex (2000 in lsh.rs:50)
max_bucket_size == 4

(***************************************************************************)
(* Program constants.                                                      *)
(***************************************************************************)
\* length of every fingerprint string (64 bits / 64 hex characters)
HashLen == 64
\* radix of the four limbs that hold a u64 bucket key
Limb == 65536
\* stands for u32::MAX in match_descriptors: above every distance
U32_MAX == 2147483647

\* the algorithms of the requests of this model (HashAlgorithm has also
\* Difference, which takes the branches of Average everywhere, and ORB)
Algorithms == {"Exact", "Average", "Perceptual"}
Thresholds == {90, 100}

(***************************************************************************)
(* Small helpers.                                                          *)
(***************************************************************************)
Min(a, b) == IF a < b THEN a ELSE b

Max(a, b) == IF a > b THEN a ELSE b

Range(s) == {s[k] : k \in DOMAIN s}

RECURSIVE Pow2(_)
Pow2(k) == IF k = 0 THEN 1 ELSE 2 * Pow2(k - 1)

\* all orderings (sequences without repetition) of a finite set
RECURSIVE Orderings(_)
Orderings(S) ==
    IF S = {} THEN {<<>>}
    ELSE UNION {{<<x>> \o o : o \in Orderings(S \ {x})} : x \in S}

\* ascending sequence of a finite set of integers
RECURSIVE SortedSeq(_)
SortedSeq(S) ==
    IF S = {} THEN <<>>
    ELSE LET m == CHOOSE x \in S : \A y \in S : x <= y
         IN <<m>> \o SortedSeq(S \ {m})

\* comparison of two f32 scores held as fractions
F32Geq(a, b) == a.n * b.d >= b.n * a.d


(***************************************************************************)
(* The file system: the fingerprints of the image contents.                *)
(* algorithms::calculate_hash reads and decodes a file; its result is a    *)
(* function of the file's content and the algorithm.  Three contents:      *)
(*   1: A                                                                  *)
(*   2: A'  = A with 4 bits of the first band changed                      *)
(*   3: A'' = A' with 4 bits of another band changed                       *)
(* so sim(A,A') = sim(A',A'') = 93.75 and sim(A,A'') = 87.5.               *)
(***************************************************************************)
Contents == {1, 2, 3}

Bad == 0

BinaryString(ones) == [k \in 1..HashLen |-> IF k \in ones THEN 49 ELSE 48]

BitPattern(c) ==
    CASE c = 1 -> {1, 18, 35, 52}
      [] c = 2 -> {1, 2, 3, 4, 5, 18, 35, 52}
      [] c = 3 -> {1, 2, 3, 4, 5, 18, 20, 21, 22, 23, 35, 52}

HexString(c) ==
    LET
        HexDigit(v) == IF v < 10 THEN 48 + v ELSE 87 + v
    IN [k \in 1..HashLen |-> HexDigit((k * (c + 2) + c) % 16)]

\* the HashResult of every content under every algorithm, computed once
FingerprintTable ==
    [a \in Algorithms |->
       [c \in Contents |->
          [hash   |-> IF a = "Exact" THEN HexString(c)
                      ELSE BinaryString(BitPattern(c)),
           width  |-> 100 + c,
           height |-> 200 + c]]]

calculate_hash(content, algorithm) == FingerprintTable[algorithm][content]

(***************************************************************************)
(* LSHIndex (lsh.rs).  A bucket key is a u64, held as four 16-bit limbs,   *)
(* least significant first.  The index is its bucket map: a function from  *)
(* the keys present to the ordered list of indices of the bucket.          *)
(* binary_cache is written by add and batch_add and read by nothing that   *)
(* the pipeline observes; it is left out.                                  *)
(***************************************************************************)
bands(algorithm) ==
    CASE algorithm = "Exact" -> 1
      [] algorithm = "ORB" -> 6
      [] algorithm = "Average" -> 4
      [] algorithm = "Difference" -> 4
      [] algorithm = "Perceptual" -> 8

\* the loop of hash_to_u64 from byte k on, h being the value so far (the
\* test h2 = h2 makes TLC compute h2 before it goes on)
RECURSIVE HashFold(_, _, _)
HashFold(h, s, k) ==
    LET
        \* h.wrapping_mul(31).wrapping_add(b) on u64
        U64MulAdd31(h_, b_) ==
            LET t1 == h_[1] * 31 + b_
                t2 == h_[2] * 31 + (t1 \div Limb)
                t3 == h_[3] * 31 + (t2 \div Limb)
                t4 == h_[4] * 31 + (t3 \div Limb)
            IN <<t1 % Limb, t2 % Limb, t3 % Limb, t4 % Limb>>
    IN
    IF k > Len(s) THEN h
    ELSE LET h2 == U64MulAdd31(h, s[k])
         IN IF h2 = h2 THEN HashFold(h2, s, k + 1) ELSE h2

hash_to_u64(s) == HashFold(<<0, 0, 0, 0>>, s, 1)

IsBinaryString(hash) ==
    Len(hash) >= HashLen /\ \A k \in 1..Len(hash) : hash[k] \in {48, 49}

\* The branch for '0'/'1' strings and the default branch (the bits of the
\* bytes).  The Base64 branches are taken only by strings that are not
\* '0'/'1' strings, whose bit vector reaches binary_cache alone.
hash_string_to_bitvec(hash) ==
    LET
        \* bit k (0..7, most significant first) of byte b
        ByteBit(b, k) == (b \div Pow2(7 - k)) % 2 = 1
    IN
    IF IsBinaryString(hash)
    THEN [k \in 1..Len(hash) |-> hash[k] = 49]
    ELSE [k \in 1..(8 * Len(hash)) |-> ByteBit(hash[((k - 1) \div 8) + 1], (k - 1) % 8)]

\* u64 with bit j (j < 64) set iff bit j of the slice bv[start+1 .. end] is set
RECURSIVE LimbValue(_, _, _, _, _)
LimbValue(bv, start, end, m, j) ==
    IF j = 16 THEN 0
    ELSE (IF start + 16 * m + j < end /\ bv[start + 16 * m + j + 1]
          THEN Pow2(j) ELSE 0)
         + LimbValue(bv, start, end, m, j + 1)

SliceKey(bv, start, end) == [m \in 1..4 |-> LimbValue(bv, start, end, m - 1, 0)]

bitvec_to_u64(bv) == SliceKey(bv, 0, Len(bv))

generate_binary_bucket_keys(bit_vec, nbands) ==
    LET len == Len(bit_vec)
        band_size == len \div nbands
    IN IF band_size = 0 THEN <<bitvec_to_u64(bit_vec)>>
       ELSE [b \in 1..nbands |->
               SliceKey(bit_vec, (b - 1) * band_size,
                        IF b = nbands THEN len ELSE b * band_size)]

\* LSHIndex::generate_bucket_keys (ORB fingerprints are not drawn by the
\* requests of this model)
generate_bucket_keys(hash, algorithm) ==
    IF algorithm = "Exact" THEN <<hash_to_u64(hash)>>
    ELSE generate_binary_bucket_keys(hash_string_to_bitvec(hash), bands(algorithm))

\* The keys of the fingerprints of the file system, computed once.
KeyTable ==
    [a \in Algorithms |->
       [c \in Contents |-> generate_bucket_keys(calculate_hash(c, a).hash, a)]]

\* generate_bucket_keys(hash, algorithm), looked up in KeyTable when hash is
\* a fingerprint of the file system
BucketKeys(hash, algorithm) ==
    LET known == {c \in Contents : calculate_hash(c, algorithm).hash = hash}
    IN IF algorithm \in Algorithms /\ known # {}
       THEN KeyTable[algorithm][CHOOSE c \in known : TRUE]
       ELSE generate_bucket_keys(hash, algorithm)

\* PushIfRoom with <= in the capacity test
PushIfRoomOneMore(bucket, index) ==
    IF index \notin Range(bucket) /\ Len(bucket) <= max_bucket_size
    THEN Append(bucket, index) ELSE bucket

\* if !bucket.contains(&index) && bucket.len() < self.max_bucket_size
PushIfRoom(bucket, index) ==
    IF index \notin Range(bucket) /\ Len(bucket) < max_bucket_size
    THEN Append(bucket, index) ELSE bucket

BucketOf(buckets, key) == IF key \in DOMAIN buckets THEN buckets[key] ELSE <<>>

RECURSIVE AddKeys(_, _, _)
AddKeys(buckets, keys, index) ==
    IF keys = <<>> THEN buckets
    ELSE LET key == Head(keys)
             nb == [k \in DOMAIN buckets \cup {key} |->
                      IF k = key THEN PushIfRoom(BucketOf(buckets, key), index)
                      ELSE buckets[k]]
         IN AddKeys(nb, Tail(keys), index)

\* LSHIndex::add
add(buckets, hash, index, algorithm) ==
    IF hash = <<>> THEN buckets
    ELSE AddKeys(buckets, BucketKeys(hash, algorithm), index)

\* the serial branch of batch_add: add(hash, start_index + i) in order
RECURSIVE SerialAdd(_, _, _, _, _)
SerialAdd(buckets, hashes, i, n, algorithm) ==
    IF i = n THEN buckets
    ELSE SerialAdd(add(buckets, hashes[i], i, algorithm), hashes, i + 1, n, algorithm)

NumChunks(n) == (n + ChunkSize - 1) \div ChunkSize

\* local_updates of one chunk: key -> the indices pushed for it, in order
RECURSIVE LocalPushes(_, _, _, _, _)
LocalPushes(hashes, idxs, key, algorithm, acc) ==
    IF idxs = <<>> THEN acc
    ELSE LET keys == BucketKeys(hashes[Head(idxs)], algorithm)
             mine == SelectSeq(keys, LAMBDA k : k = key)
         IN LocalPushes(hashes, Tail(idxs), key, algorithm,
                        acc \o [k \in 1..Len(mine) |-> Head(idxs)])

RECURSIVE PushAll(_, _)
PushAll(bucket, indices) ==
    IF indices = <<>> THEN bucket
    ELSE PushAll(PushIfRoom(bucket, Head(indices)), Tail(indices))

\* LSHIndex::query
query(buckets, hash, algorithm) ==
    IF hash = <<>> THEN <<>>
    ELSE LET keys == BucketKeys(hash, algorithm)
             candidates == UNION {Range(buckets[k]) :
                                     k \in Range(keys) \cap DOMAIN buckets}
         IN SortedSeq(candidates)

\* QueryPairs with the filter j != i in place of j > i
QueryPairsBothWays(buckets, hashes, n, algorithm) ==
    UNION {{<<i, j>> : j \in {c \in Range(query(buckets, hashes[i], algorithm)) : c # i}} :
              i \in 0..(n - 1)}

\* the pair set of compute_pairs_small_dataset, given the filled index
QueryPairs(buckets, hashes, n, algorithm) ==
    UNION {{<<i, j>> : j \in {c \in Range(query(buckets, hashes[i], algorithm)) : c > i}} :
              i \in 0..(n - 1)}

(***************************************************************************)
(* The ORB feature codec (algorithms/orb.rs).  A u32 is its value, an f32  *)
(* its sign, exponent and mantissa bits; Option and Result are <<>> for    *)
(* None/Err and <<v>> for Some/Ok.                                         *)
(***************************************************************************)
\* u32::to_le_bytes
U32ToLe(v) ==
    <<v % 256, (v \div 256) % 256, (v \div 65536) % 256, (v \div 16777216) % 256>>

\* u32::from_le_bytes
U32FromLe(b) == b[1] + 256 * b[2] + 65536 * b[3] + 16777216 * b[4]

\* the sextet of a character, -1 for a character outside the alphabet
Base64Value(ch) ==
    CASE ch >= 65 /\ ch <= 90 -> ch - 65
      [] ch >= 97 /\ ch <= 122 -> ch - 97 + 26
      [] ch >= 48 /\ ch <= 57 -> ch - 48 + 52
      [] ch = 43 -> 62
      [] ch = 47 -> 63
      [] OTHER -> -1

\* general_purpose::STANDARD.encode(&data): padded with '='
Base64Encode(data) ==
    LET
        \* the character of a sextet in the standard alphabet
        Base64Char(v) ==
            CASE v < 26 -> 65 + v
              [] v < 52 -> 97 + (v - 26)
              [] v < 62 -> 48 + (v - 52)
              [] v = 62 -> 43
              [] OTHER -> 47
    IN
    LET n == Len(data)
        ByteAt(k) == IF k <= n THEN data[k] ELSE 0
        Quad(q) == ByteAt(3 * q + 1) * 65536 + ByteAt(3 * q + 2) * 256 + ByteAt(3 * q + 3)
        Sextet(q, r) ==
            CASE r = 0 -> Quad(q) \div 262144
              [] r = 1 -> (Quad(q) \div 4096) % 64
              [] r = 2 -> (Quad(q) \div 64) % 64
              [] OTHER -> Quad(q) % 64
    IN [k \in 1..(4 * ((n + 2) \div 3)) |->
          LET q == (k - 1) \div 4
              r == (k - 1) % 4
          IN IF r >= 2 /\ 3 * q + r > n THEN 61 ELSE Base64Char(Sextet(q, r))]

\* general_purpose::STANDARD.decode(features): Err for a length that is no
\* multiple of 4, a character outside the alphabet, padding out of place or
\* trailing bits that are not zero
Base64Decode(str) ==
    LET m == Len(str)
        pads == IF m >= 2 /\ str[m] = 61 /\ str[m - 1] = 61 THEN 2
                ELSE IF m >= 1 /\ str[m] = 61 THEN 1 ELSE 0
        Val(k) == IF k > m - pads THEN 0 ELSE Base64Value(str[k])
        Quad(q) == Val(4 * q + 1) * 262144 + Val(4 * q + 2) * 4096
                     + Val(4 * q + 3) * 64 + Val(4 * q + 4)
        last == Quad(m \div 4 - 1)
        n == (m \div 4) * 3 - pads
    IN IF m % 4 # 0 \/ (\E k \in 1..(m - pads) : Base64Value(str[k]) = -1)
       THEN <<>>
       ELSE IF (pads = 1 /\ last % 256 # 0) \/ (pads = 2 /\ last % 65536 # 0)
       THEN <<>>
       ELSE <<[j \in 1..n |->
                 LET q == (j - 1) \div 3
                     i == (j - 1) % 3
                 IN CASE i = 0 -> Quad(q) \div 65536
                      [] i = 1 -> (Quad(q) \div 256) % 256
                      [] OTHER -> Quad(q) % 256]>>

RECURSIVE AllDescriptorBytes(_, _)
AllDescriptorBytes(descriptors, count) ==
    LET
        \* the bytes of one descriptor: x, y, angle, data
        DescriptorBytes(desc) ==
            LET
                \* f32::to_le_bytes: sign(1) exponent(8) mantissa(23), low byte first
                F32ToLe(f) ==
                    <<f.mantissa % 256,
                      (f.mantissa \div 256) % 256,
                      (f.exponent % 2) * 128 + f.mantissa \div 65536,
                      f.sign * 128 + f.exponent \div 2>>
            IN
            U32ToLe(desc.x) \o U32ToLe(desc.y) \o F32ToLe(desc.angle) \o desc.data
    IN
    IF count = 0 THEN <<>>
    ELSE AllDescriptorBytes(descriptors, count - 1) \o DescriptorBytes(descriptors[count])

\* serialize_features with count = descriptors.len()
serialize_features_uncapped(descriptors) ==
    Base64Encode(U32ToLe(Len(descriptors)) \o AllDescriptorBytes(descriptors, Len(descriptors)))

serialize_features(descriptors) ==
    LET count == Min(Len(descriptors), MaxFeatures)
    IN Base64Encode(U32ToLe(count) \o AllDescriptorBytes(descriptors, count))

\* 4 + 4 + 4 + 32
descriptor_size == 4 + 4 + 4 + DescBytes

deserialize_features(data) ==
    LET
        \* f32::from_le_bytes
        F32FromLe(b) ==
            [sign |-> b[4] \div 128,
             exponent |-> (b[4] % 128) * 2 + b[3] \div 128,
             mantissa |-> (b[3] % 128) * 65536 + b[2] * 256 + b[1]]
    IN
    IF Len(data) < 4 THEN <<>>
    ELSE LET count == U32FromLe(SubSeq(data, 1, 4))
         IN IF 4 + count * descriptor_size > Len(data) THEN <<>>
            ELSE <<[i \in 1..count |->
                      LET offset == 4 + (i - 1) * descriptor_size
                      IN [x |-> U32FromLe(SubSeq(data, offset + 1, offset + 4)),
                          y |-> U32FromLe(SubSeq(data, offset + 5, offset + 8)),
                          angle |-> F32FromLe(SubSeq(data, offset + 9, offset + 12)),
                          data |-> SubSeq(data, offset + 13, offset + descriptor_size)]]>>

(***************************************************************************)
(* ORB matching and score (algorithms/orb.rs).                             *)
(***************************************************************************)
RECURSIVE SumOnes(_, _, _)
SumOnes(a, b, k) ==
    LET \* (x ^ y).count_ones()
        XorOnes(x, y) ==
            Cardinality({bit \in 0..7 : (x \div Pow2(bit)) % 2 # (y \div Pow2(bit)) % 2})
    IN IF k = 0 THEN 0 ELSE SumOnes(a, b, k - 1) + XorOnes(a[k], b[k])

compute_hamming_distance(a, b) == SumOnes(a, b, Min(Len(a), Len(b)))

\* the search of the nearest and second nearest descriptor, over
\* distances[1..j]
RECURSIVE NearestTwo(_, _)
NearestTwo(distances, j) ==
    IF j = 0 THEN [best_distance |-> U32_MAX, second_best |-> U32_MAX, best_idx |-> 0]
    ELSE LET prev == NearestTwo(distances, j - 1)
             distance == distances[j]
         IN IF distance < prev.best_distance
            THEN [best_distance |-> distance, second_best |-> prev.best_distance,
                  best_idx |-> j - 1]
            ELSE IF distance < prev.second_best
            THEN [prev EXCEPT !.second_best = distance]
            ELSE prev

\* the matches of descriptors1[1..i], in the order of the loop
RECURSIVE NearestMatches(_, _, _)
NearestMatches(descriptors1, descriptors2, i) ==
    LET
        \* best_distance < max_distance and ratio < ratio_threshold (0.8), the ratio
        \* being 0.0 without a second nearest
        PassesRatioTest(nearest) ==
            /\ nearest.best_distance < max_distance
            /\ \/ nearest.second_best = U32_MAX
               \/ 5 * nearest.best_distance < 4 * nearest.second_best
    IN
    IF i = 0 THEN <<>>
    ELSE LET distances == [j \in 1..Len(descriptors2) |->
                             compute_hamming_distance(descriptors1[i].data,
                                                      descriptors2[j].data)]
             nearest == NearestTwo(distances, Len(distances))
             before == NearestMatches(descriptors1, descriptors2, i - 1)
         IN IF PassesRatioTest(nearest)
            THEN Append(before, <<i - 1, nearest.best_idx>>)
            ELSE before

filter_matches_by_distance_consistency(matches, descriptors1, descriptors2) ==
    LET
        \* the square of the distance of two keypoints
        SquaredDistance(p_, q_) == (p_.x - q_.x) * (p_.x - q_.x) + (p_.y - q_.y) * (p_.y - q_.y)
    IN
    LET
        \* dist1 > 0.1 && dist2 > 0.1 and the greater over the smaller below 1.5
        Consistent(sq1, sq2) ==
            /\ sq1 >= 1
            /\ sq2 >= 1
            /\ IF sq1 > sq2 THEN 4 * sq1 < 9 * sq2 ELSE 4 * sq2 < 9 * sq1
    IN
    IF Len(matches) < 4 THEN matches
    ELSE LET min_consistent == Len(matches) \div 4
             Count(i) ==
                Cardinality({j \in 1..Len(matches) :
                    /\ j # i
                    /\ Consistent(
                         SquaredDistance(descriptors1[matches[i][1] + 1],
                                         descriptors1[matches[j][1] + 1]),
                         SquaredDistance(descriptors2[matches[i][2] + 1],
                                         descriptors2[matches[j][2] + 1]))})
             flagged == SelectSeq([i \in 1..Len(matches) |->
                                      <<matches[i], Count(i) >= min_consistent>>],
                                  LAMBDA m : m[2])
         IN [i \in 1..Len(flagged) |-> flagged[i][1]]

match_descriptors(descriptors1, descriptors2) ==
    LET matches == NearestMatches(descriptors1, descriptors2, Len(descriptors1))
    IN IF Len(matches) > 10
       THEN filter_matches_by_distance_consistency(matches, descriptors1, descriptors2)
       ELSE matches

\* Ok(score) as <<score>>, Err as <<>>
calculate_orb_similarity(features1, features2) ==
    LET data1 == Base64Decode(features1)
        data2 == Base64Decode(features2)
    IN IF data1 = <<>> \/ data2 = <<>> THEN <<>>
       ELSE LET descriptors1 == deserialize_features(data1[1])
                descriptors2 == deserialize_features(data2[1])
            IN IF descriptors1 = <<>> \/ descriptors2 = <<>> THEN <<>>
               ELSE LET match_count == Len(match_descriptors(descriptors1[1],
                                                              descriptors2[1]))
                        total == Min(Len(descriptors1[1]), Len(descriptors2[1]))
                    IN IF total = 0 THEN <<[n |-> 0, d |-> 1]>>
                       ELSE <<[n |-> 100 * match_count, d |-> total]>>

(***************************************************************************)
(* Similarity (core/utils/mod.rs, algorithms/mod.rs).                      *)
(***************************************************************************)
hamming_distance(hash1, hash2) ==
    Cardinality({k \in 1..Min(Len(hash1), Len(hash2)) : hash1[k] # hash2[k]})

\* hash_similarity with a distance that counts only the positions where hash1
\* has the greater character
hash_similarity_one_sided(hash1, hash2) ==
    [n |-> 100 * (Len(hash1)
                   - Cardinality({k \in 1..Min(Len(hash1), Len(hash2)) :
                                     hash1[k] > hash2[k]})),
     d |-> Len(hash1)]

\* 100.0 * (1.0 - distance / hash1.len())
hash_similarity(hash1, hash2) ==
    [n |-> 100 * (Len(hash1) - hamming_distance(hash1, hash2)), d |-> Len(hash1)]

calculate_similarity(hash1, hash2, algorithm) ==
    CASE algorithm = "Exact" ->
           (IF hash1 = hash2 THEN [n |-> 100, d |-> 1] ELSE [n |-> 0, d |-> 1])
      [] algorithm = "ORB" ->
           \* orb::calculate_orb_similarity(hash1, hash2).unwrap_or(0.0)
           (LET score == calculate_orb_similarity(hash1, hash2)
            IN IF score = <<>> THEN [n |-> 0, d |-> 1] ELSE score[1])
      [] OTHER -> hash_similarity(hash1, hash2)

(***************************************************************************)
(* DisjointSet (duplicate.rs).                                             *)
(***************************************************************************)
DisjointSetNew(size) ==
    [parent |-> [i \in 0..(size - 1) |-> i],
     rank   |-> [i \in 0..(size - 1) |-> 0],
     size   |-> [i \in 0..(size - 1) |-> 1]]

RECURSIVE Root(_, _)
Root(parent, x) == IF parent[x] = x THEN x ELSE Root(parent, parent[x])

RECURSIVE PathTo(_, _)
PathTo(parent, x) == IF parent[x] = x THEN {} ELSE {x} \cup PathTo(parent, parent[x])

\* DisjointSet::find that links the elements of the path to x's parent
FindCompressToParent(parent, x) ==
    [i \in DOMAIN parent |-> IF i \in PathTo(parent, x) THEN parent[x] ELSE parent[i]]

\* DisjointSet::find: the parent vector after the path compression
FindCompress(parent, x) ==
    LET root == Root(parent, x)
        path == PathTo(parent, x)
    IN [i \in DOMAIN parent |-> IF i \in path THEN root ELSE parent[i]]

\* DisjointSet::union without the exchange of the two roots
union_without_swap(ds, x, y) ==
    LET p1 == FindCompress(ds.parent, x)
        rx == Root(ds.parent, x)
        p2 == FindCompress(p1, y)
        ry == Root(p1, y)
    IN IF rx = ry THEN [ds EXCEPT !.parent = p2]
       ELSE [parent |-> [p2 EXCEPT ![ry] = rx],
             rank   |-> IF ds.rank[rx] = ds.rank[ry]
                        THEN [ds.rank EXCEPT ![rx] = (@ + 1) % 256]
                        ELSE ds.rank,
             size   |-> [ds.size EXCEPT ![rx] = @ + ds.size[ry]]]

\* DisjointSet::union
union(ds, x, y) ==
    LET p1 == FindCompress(ds.parent, x)
        rx == Root(ds.parent, x)
        p2 == FindCompress(p1, y)
        ry == Root(p1, y)
        root_x == IF ds.size[rx] < ds.size[ry] THEN ry ELSE rx
        root_y == IF ds.size[rx] < ds.size[ry] THEN rx ELSE ry
    IN IF rx = ry THEN [ds EXCEPT !.parent = p2]
       ELSE [parent |-> [p2 EXCEPT ![root_y] = root_x],
             rank   |-> IF ds.rank[root_x] = ds.rank[root_y]
                        THEN [ds.rank EXCEPT ![root_x] = (@ + 1) % 256]
                        ELSE ds.rank,
             size   |-> [ds.size EXCEPT ![root_x] = @ + ds.size[root_y]]]

(***************************************************************************)
(* find_duplicate_groups: verification of the candidate pairs.             *)
(***************************************************************************)
\* format!("{}", n): the decimal digits of n
RECURSIVE Decimal(_)
Decimal(n) == IF n < 10 THEN <<48 + n>> ELSE Decimal(n \div 10) \o <<48 + (n % 10)>>

\* format!("{}:{}", a, b)
ColonPair(a, b) == Decimal(a) \o <<58>> \o Decimal(b)

\* the key of pair (i, j) in SIMILARITY_CACHE: "i:j" or "j:i"
cache_key(hash_strings, i, j) ==
    LET
        \* Rust's str ordering: bytewise lexicographic
        LexLess(s, t) ==
            LET diff == {k \in 1..Min(Len(s), Len(t)) : s[k] # t[k]}
            IN IF diff = {} THEN Len(s) < Len(t)
               ELSE LET first == CHOOSE k \in diff : \A m \in diff : k <= m
                    IN s[first] < t[first]
    IN
    IF LexLess(hash_strings[i], hash_strings[j])
    THEN ColonPair(i, j) ELSE ColonPair(j, i)

\* the score of a pair that is not in the cache
ComputeSim(hash_strings, i, j, algorithm) ==
    LET
        \* bit_vectors[i]: Some(bits) for a '0'/'1' string of length >= 64
        HasBitVector(hash_) == IsBinaryString(hash_)
    IN
    LET h1 == hash_strings[i]
        h2 == hash_strings[j]
    IN IF HasBitVector(h1) /\ HasBitVector(h2) /\ Len(h1) = Len(h2)
       THEN [n |-> 100 * (Len(h1) - Cardinality({k \in 1..Len(h1) : h1[k] # h2[k]})),
             d |-> Len(h1)]
       ELSE calculate_similarity(h1, h2, algorithm)

\* the score the closure returns for pair (i, j), given the cache
PairSim(cache, hash_strings, i, j, algorithm) ==
    LET key == cache_key(hash_strings, i, j)
    IN IF cache.some
       THEN (IF key \in DOMAIN cache.map THEN cache.map[key]
             ELSE ComputeSim(hash_strings, i, j, algorithm))
       ELSE calculate_similarity(hash_strings[i], hash_strings[j], algorithm)

\* Surviving without the filter
SurvivingUnfiltered(cache, hash_strings, pairs, algorithm, threshold) == pairs

\* .filter(|(_, similarity)| *similarity >= threshold)
Surviving(cache, hash_strings, pairs, algorithm, threshold) ==
    {p \in pairs : F32Geq(PairSim(cache, hash_strings, p[1], p[2], algorithm),
                          [n |-> threshold, d |-> 1])}

(***************************************************************************)
(* find_duplicate_groups: assembly of the groups.                          *)
(***************************************************************************)
\* group_map: root -> the indices i with find(i) = root, ascending
group_map(ds, n) ==
    LET roots == {Root(ds.parent, i) : i \in 0..(n - 1)}
    IN [r \in roots |-> SortedSeq({i \in 0..(n - 1) : Root(ds.parent, i) = r})]

\* the ImageInfo of index idx (the metadata fields are those that
\* get_file_metadata returned)
ImageInfoOf(paths, hashes, idx) ==
    [path   |-> paths[idx],
     hash   |-> hashes[idx].hash,
     width  |-> hashes[idx].width,
     height |-> hashes[idx].height]

\* GroupImages with the position inside the component taken for the index
GroupImagesByPosition(paths, hashes, indices, meta_fail) ==
    LET ok == SelectSeq([k \in 1..Len(indices) |-> k - 1],
                        LAMBDA idx : paths[idx] \notin meta_fail)
    IN [k \in 1..Len(ok) |-> ImageInfoOf(paths, hashes, ok[k])]

\* the images of one component: filter_map over indices, in order
GroupImages(paths, hashes, indices, meta_fail) ==
    LET ok == SelectSeq(indices, LAMBDA idx : paths[idx] \notin meta_fail)
    IN [k \in 1..Len(ok) |-> ImageInfoOf(paths, hashes, ok[k])]

\* KeepGroup without the second test, on the images that have metadata
KeepGroupUnchecked(indices, images) == Len(indices) > 1

\* if indices.len() <= 1 { continue } ... if images.len() > 1 { push }
KeepGroup(indices, images) == Len(indices) > 1 /\ Len(images) > 1

\* the loop over group_map.iter(), which visits the roots in the order ord
RECURSIVE BuildGroups(_, _, _, _, _, _)
BuildGroups(gm, ord, paths, hashes, meta_fail, threshold) ==
    IF ord = <<>> THEN <<>>
    ELSE LET indices == gm[Head(ord)]
             images == GroupImages(paths, hashes, indices, meta_fail)
             rest == BuildGroups(gm, Tail(ord), paths, hashes, meta_fail, threshold)
         IN IF KeepGroup(indices, images)
            THEN <<[images |-> images, similarity_threshold |-> threshold]>> \o rest
            ELSE rest

\* SizeOrder with the operands of cmp exchanged
SizeOrderAscending(a, b) == Len(a.images) <= Len(b.images)

\* b.images.len().cmp(&a.images.len()): a goes before b
SizeOrder(a, b) == Len(a.images) >= Len(b.images)

\* insertion of g into a sorted list, behind every element that may stay
\* in front of it (the sort is stable)
RECURSIVE InsertSorted(_, _)
InsertSorted(sorted, g) ==
    IF sorted = <<>> THEN <<g>>
    ELSE IF SizeOrder(Head(sorted), g)
         THEN <<Head(sorted)>> \o InsertSorted(Tail(sorted), g)
         ELSE <<g>> \o sorted

\* sorted_groups.sort_by(...): a stable sort
RECURSIVE SortGroups(_)
SortGroups(groups) ==
    IF groups = <<>> THEN <<>>
    ELSE InsertSorted(SortGroups(SubSeq(groups, 1, Len(groups) - 1)),
                      groups[Len(groups)])

(***************************************************************************)
(* compute_image_hashes.                                                   *)
(***************************************************************************)
NumBatches(n) == (n + BATCH_SIZE - 1) \div BATCH_SIZE

\* the loop over batch_results under the lock: results_lock[idx] = Some(hash)
RECURSIVE CommitBatch(_, _, _, _, _, _)
CommitBatch(res, files, algorithm, b, local_idx, len) ==
    LET
        \* the global index computed from the address of the batch's element
        Offset(b_, local_idx_) == b_ * BATCH_SIZE + local_idx_
    IN
    IF local_idx = len THEN res
    ELSE LET path == b * BATCH_SIZE + local_idx
             idx == Offset(b, local_idx)
             nres == IF files[path] # Bad /\ idx \in DOMAIN res
                     THEN [res EXCEPT ![idx] = <<calculate_hash(files[path], algorithm)>>]
                     ELSE res
         IN CommitBatch(nres, files, algorithm, b, local_idx + 1, len)

\* final_results.into_iter().filter_map(|opt| opt).collect()
valid_hashes(res) ==
    LET idxs == SortedSeq({i \in DOMAIN res : res[i] # <<>>})
    IN [k \in 0..(Len(idxs) - 1) |-> res[idxs[k + 1]][1]]

\* HashesResult without the test for an empty vector
HashesResultUnchecked(res) == [ok |-> TRUE, hashes |-> valid_hashes(res)]

\* the Result of compute_image_hashes, given the filled results vector
HashesResult(res) ==
    IF DOMAIN valid_hashes(res) # {}
    THEN [ok |-> TRUE, hashes |-> valid_hashes(res)]
    ELSE [ok |-> FALSE, hashes |-> <<>>]

\* LengthsMatch without the comparison
LengthsMatchUnchecked(paths, hashes) == TRUE

\* the length check at the head of find_duplicate_groups
LengthsMatch(paths, hashes) == Cardinality(DOMAIN paths) = Cardinality(DOMAIN hashes)

(***************************************************************************)
(* The order of similarity_results.  It is the order of candidate_pairs, a *)
(* Vec collected from a HashSet: unspecified.  The model unions the edges  *)
(* in ascending or in descending order; the order decides which member of  *)
(* a component becomes its root, and Assemble visits the roots in every    *)
(* order.                                                                  *)
(***************************************************************************)
PairsAscending(pairs, n) ==
    LET codes == SortedSeq({p[1] * n + p[2] : p \in pairs})
    IN [k \in 1..Len(codes) |-> <<codes[k] \div n, codes[k] % n>>]

EdgeOrders(pairs, n) ==
    LET
        Reverse(s) == [k \in 1..Len(s) |-> s[Len(s) + 1 - k]]
    IN {PairsAscending(pairs, n), Reverse(PairsAscending(pairs, n))}

\* for ((i, j), _) in &similarity_results { disjoint_set.union(*i, *j) }
RECURSIVE UnionAll(_, _)
UnionAll(ds, order) ==
    IF order = <<>> THEN ds
    ELSE UnionAll(union(ds, Head(order)[1], Head(order)[2]), Tail(order))

(***************************************************************************)
(* The state.                                                              *)
(***************************************************************************)
VARIABLES
    request,            \* folders' files, metadata failures, algorithm, threshold
    pc,                 \* where the current call of detect_duplicates is
    run,                \* number of the current call
    SIMILARITY_CACHE,   \* the static cache: [some, map]
    all_image_paths,    \* the path vector
    results,            \* compute_image_hashes: Vec<Option<HashResult>>
    pending,            \* batches / chunks that have not yet taken the lock
    error_count,
    image_hashes,       \* the fingerprint vector handed to find_duplicate_groups
    buckets,            \* the bucket map of the LSH index
    candidate_pairs,
    similarity_results, \* the pairs that passed the threshold
    disjoint_set,
    result,             \* what the call returned
    prev_result         \* what the previous call returned

vars == <<request, pc, run, SIMILARITY_CACHE, all_image_paths, results, pending,
          error_count, image_hashes, buckets, candidate_pairs,
          similarity_results, disjoint_set, result, prev_result>>

\* the variables that hold the locals of one call
locals == <<all_image_paths, results, pending, error_count, image_hashes,
            buckets, candidate_pairs, similarity_results, disjoint_set>>

NoResult == [kind |-> "none", groups |-> <<>>, error |-> ""]

OkResult(groups) == [kind |-> "Ok", groups |-> groups, error |-> ""]

ErrResult(e) == [kind |-> "Err", groups |-> <<>>, error |-> e]

EmptyMap == [k \in {} |-> 0]

NumFiles == Cardinality(DOMAIN request.files)

Ascending(f) ==
    \A i, j \in DOMAIN f : i < j => f[i] <= f[j]

FileVectors ==
    UNION {{f \in [0..(n - 1) -> Contents \cup {Bad}] :
               n > ExhaustiveLen => Ascending(f)} : n \in 0..MaxImages}

LocalsInit ==
    /\ all_image_paths = <<>>
    /\ results = <<>>
    /\ pending = {}
    /\ error_count = 0
    /\ image_hashes = <<>>
    /\ buckets = EmptyMap
    /\ candidate_pairs = {}
    /\ similarity_results = {}
    /\ disjoint_set = DisjointSetNew(0)

Init ==
    LET
        \* folders is the length of params.folders; files is what get_image_paths
        \* yields for them, concatenated; folder_error: get_image_paths fails for one
        Requests ==
            {[files |-> f, meta_fail |-> m, algorithm |-> a, threshold |-> t,
              folder_error |-> FALSE, folders |-> 1] :
                f \in FileVectors, m \in SUBSET (0..(MaxMetaFail - 1)),
                a \in Algorithms, t \in Thresholds}
            \cup
            {[files |-> <<>>, meta_fail |-> {}, algorithm |-> a, threshold |-> t,
              folder_error |-> FALSE, folders |-> 0] : a \in Algorithms, t \in Thresholds}
            \cup
            {[files |-> <<>>, meta_fail |-> {}, algorithm |-> a, threshold |-> t,
              folder_error |-> TRUE, folders |-> 1] : a \in Algorithms, t \in Thresholds}
    IN
    /\ request \in {r \in Requests : r.meta_fail \subseteq DOMAIN r.files}
    /\ pc = "idle"
    /\ run = 1
    /\ SIMILARITY_CACHE = [some |-> FALSE, map |-> EmptyMap]
    /\ LocalsInit
    /\ result = NoResult
    /\ prev_result = NoResult

(***************************************************************************)
(* detect_duplicates up to the start of the parallel hashing.              *)
(***************************************************************************)
\* Start with an error returned when no image is enumerated
StartEmptyIsError ==
    /\ pc = "idle"
    /\ SIMILARITY_CACHE' = [some |-> TRUE, map |-> EmptyMap]
    /\ IF request.folder_error \/ NumFiles = 0
       THEN /\ result' = ErrResult("enumeration")
            /\ pc' = "done"
            /\ UNCHANGED <<all_image_paths, results, pending>>
       ELSE /\ all_image_paths' = [i \in 0..(NumFiles - 1) |-> i]
            /\ results' = [i \in 0..(NumFiles - 1) |-> <<>>]
            /\ pending' = 0..(NumBatches(NumFiles) - 1)
            /\ pc' = "hashing"
            /\ UNCHANGED result
    /\ UNCHANGED <<request, run, error_count, image_hashes, buckets,
                   candidate_pairs, similarity_results, disjoint_set, prev_result>>

Start ==
    /\ pc = "idle"
    /\ SIMILARITY_CACHE' = [some |-> TRUE, map |-> EmptyMap]
    /\ IF request.folder_error
       THEN /\ result' = ErrResult("enumeration")
            /\ pc' = "done"
            /\ UNCHANGED <<all_image_paths, results, pending>>
       ELSE IF NumFiles = 0
       THEN /\ result' = OkResult(<<>>)
            /\ pc' = "done"
            /\ UNCHANGED <<all_image_paths, results, pending>>
       ELSE /\ all_image_paths' = [i \in 0..(NumFiles - 1) |-> i]
            /\ results' = [i \in 0..(NumFiles - 1) |-> <<>>]
            /\ pending' = 0..(NumBatches(NumFiles) - 1)
            /\ pc' = "hashing"
            /\ UNCHANGED result
    /\ UNCHANGED <<request, run, error_count, image_hashes, buckets,
                   candidate_pairs, similarity_results, disjoint_set, prev_result>>

\* one batch of par_chunks(BATCH_SIZE) takes the locks and stores its results
HashBatch(b) ==
    LET
        BatchLen(b_, n_) == Min(n_, (b_ + 1) * BATCH_SIZE) - b_ * BATCH_SIZE
    IN
    LET
        BatchErrors(files_, b_, n_) ==
            Cardinality({l \in 0..(BatchLen(b_, n_) - 1) : files_[b_ * BATCH_SIZE + l] = Bad})
    IN
    /\ pc = "hashing"
    /\ b \in pending
    /\ results' = CommitBatch(results, request.files, request.algorithm, b, 0,
                              BatchLen(b, NumFiles))
    /\ error_count' = error_count + BatchErrors(request.files, b, NumFiles)
    /\ pending' = pending \ {b}
    /\ UNCHANGED <<request, pc, run, SIMILARITY_CACHE, all_image_paths,
                   image_hashes, buckets, candidate_pairs, similarity_results,
                   disjoint_set, result, prev_result>>

\* the end of compute_image_hashes, the checks at the head of
\* find_duplicate_groups, and batch_add up to its parallel part
HashJoin ==
    /\ pc = "hashing"
    /\ pending = {}
    /\ LET hr == HashesResult(results)
           n == Cardinality(DOMAIN hr.hashes)
           hs == [i \in DOMAIN hr.hashes |-> hr.hashes[i].hash]
       IN IF ~hr.ok
          THEN /\ result' = ErrResult("all images failed")
               /\ pc' = "done"
               /\ UNCHANGED <<image_hashes, buckets, pending>>
          ELSE IF n = 0
          THEN /\ result' = OkResult(<<>>)
               /\ pc' = "done"
               /\ UNCHANGED <<image_hashes, buckets, pending>>
          ELSE IF ~LengthsMatch(all_image_paths, hr.hashes)
          THEN /\ result' = ErrResult("length mismatch")
               /\ pc' = "done"
               /\ UNCHANGED <<image_hashes, buckets, pending>>
          ELSE /\ image_hashes' = hr.hashes
               /\ pc' = "indexing"
               /\ UNCHANGED result
               /\ IF n <= 1
                  THEN buckets' = EmptyMap /\ pending' = {}
                  ELSE IF n <= SerialAddMax
                  THEN /\ buckets' = SerialAdd(EmptyMap, hs, 0, n, request.algorithm)
                       /\ pending' = {}
                  ELSE /\ buckets' = EmptyMap
                       /\ pending' = 0..(NumChunks(n) - 1)
    /\ UNCHANGED <<request, run, SIMILARITY_CACHE, all_image_paths, results,
                   error_count, candidate_pairs, similarity_results,
                   disjoint_set, prev_result>>

HashStrings == [i \in DOMAIN image_hashes |-> image_hashes[i].hash]

NumHashes == Cardinality(DOMAIN image_hashes)

\* one chunk of the parallel batch_add takes the bucket lock
LshChunk(c) ==
    LET
        \* indices of chunk c of all_keys.chunks(ChunkSize)
        ChunkIndices(c_, n_) == {i \in 0..(n_ - 1) : i \div ChunkSize = c_}
    IN
    LET
        \* one chunk of the parallel branch of batch_add, applied under the lock
        ApplyChunk(buckets_, hashes_, c_, n_, algorithm_) ==
            LET idxs == SortedSeq(ChunkIndices(c_, n_))
                keys == UNION {Range(BucketKeys(hashes_[i], algorithm_)) :
                                  i \in ChunkIndices(c_, n_)}
            IN [k \in DOMAIN buckets_ \cup keys |->
                  IF k \in keys
                  THEN PushAll(BucketOf(buckets_, k),
                               LocalPushes(hashes_, idxs, k, algorithm_, <<>>))
                  ELSE buckets_[k]]
    IN
    /\ pc = "indexing"
    /\ c \in pending
    /\ buckets' = ApplyChunk(buckets, HashStrings, c, NumHashes, request.algorithm)
    /\ pending' = pending \ {c}
    /\ UNCHANGED <<request, pc, run, SIMILARITY_CACHE, all_image_paths, results,
                   error_count, image_hashes, candidate_pairs, similarity_results,
                   disjoint_set, result, prev_result>>

\* the queries and the verification of the candidate pairs
Verify ==
    LET
        WithoutKeys(cache, lost) ==
            [cache EXCEPT !.map = [key \in DOMAIN cache.map \ lost |-> cache.map[key]]]
    IN
    LET
        \* the inserts of the closure that may be lost: the closure runs on the
        \* workers of par_iter and writes the static map without a lock, so with two
        \* or more pairs an insert can overlap another access of the map
        LostInserts(hash_strings, pairs) ==
            IF Cardinality(pairs) < 2 THEN {{}}
            ELSE {lost \in SUBSET {cache_key(hash_strings, p[1], p[2]) : p \in pairs} :
                     Cardinality(lost) <= MaxLost}
    IN
    LET
        \* the cache after the closure has run for every pair of the set
        CacheAfter(cache, hash_strings, pairs, algorithm) ==
            IF ~cache.some THEN cache
            ELSE LET keys == {cache_key(hash_strings, p[1], p[2]) : p \in pairs}
                     PairOf(key) == CHOOSE p \in pairs :
                                       cache_key(hash_strings, p[1], p[2]) = key
                 IN [cache EXCEPT !.map =
                       [key \in DOMAIN cache.map \cup keys |->
                          IF key \in DOMAIN cache.map THEN cache.map[key]
                          ELSE ComputeSim(hash_strings, PairOf(key)[1], PairOf(key)[2],
                                          algorithm)]]
    IN
    /\ pc = "indexing"
    /\ pending = {}
    /\ LET pairs == IF NumHashes <= 1 THEN {}
                    ELSE QueryPairs(buckets, HashStrings, NumHashes, request.algorithm)
       IN /\ candidate_pairs' = pairs
          /\ similarity_results' = Surviving(SIMILARITY_CACHE, HashStrings, pairs,
                                             request.algorithm, request.threshold)
          /\ \E lost \in LostInserts(HashStrings, pairs) :
                SIMILARITY_CACHE' =
                    WithoutKeys(CacheAfter(SIMILARITY_CACHE, HashStrings, pairs,
                                           request.algorithm), lost)
    /\ pc' = "grouping"
    /\ UNCHANGED <<request, run, all_image_paths, results, pending, error_count,
                   image_hashes, buckets, disjoint_set, result, prev_result>>

\* the unsynchronised accesses of the map corrupt it and the process aborts
VerifyAbort ==
    /\ pc = "indexing"
    /\ pending = {}
    /\ NumHashes > 1
    /\ Cardinality(QueryPairs(buckets, HashStrings, NumHashes, request.algorithm)) >= 2
    /\ pc' = "aborted"
    /\ UNCHANGED <<request, run, SIMILARITY_CACHE, locals, result, prev_result>>

\* the DisjointSet and the unions of the surviving pairs
Group ==
    /\ pc = "grouping"
    /\ \E order \in EdgeOrders(similarity_results, NumHashes) :
         disjoint_set' = UnionAll(DisjointSetNew(NumHashes), order)
    /\ pc' = "assembling"
    /\ UNCHANGED <<request, run, SIMILARITY_CACHE, all_image_paths, results,
                   pending, error_count, image_hashes, buckets, candidate_pairs,
                   similarity_results, result, prev_result>>

\* group_map, the groups in the iteration order of group_map, the sort, the
\* clearing of the cache and the return
Assemble ==
    /\ pc = "assembling"
    /\ LET gm == group_map(disjoint_set, NumHashes)
       IN \E ord \in Orderings(DOMAIN gm) :
            result' = OkResult(SortGroups(
                         BuildGroups(gm, ord, all_image_paths, image_hashes,
                                     request.meta_fail, request.threshold)))
    /\ SIMILARITY_CACHE' = [SIMILARITY_CACHE EXCEPT !.map = EmptyMap]
    /\ pc' = "done"
    /\ UNCHANGED <<request, run, locals, prev_result>>

\* the caller sends the same request again; the locals of the call that
\* returned are gone
CallAgain ==
    /\ pc = "done"
    /\ run < MaxRuns
    /\ prev_result' = result
    /\ result' = NoResult
    /\ run' = run + 1
    /\ pc' = "idle"
    /\ all_image_paths' = <<>>
    /\ results' = <<>>
    /\ pending' = {}
    /\ error_count' = 0
    /\ image_hashes' = <<>>
    /\ buckets' = EmptyMap
    /\ candidate_pairs' = {}
    /\ similarity_results' = {}
    /\ disjoint_set' = DisjointSetNew(0)
    /\ UNCHANGED <<request, SIMILARITY_CACHE>>

Next ==
    \/ Start
    \/ \E b \in 0..(MaxImages - 1) : HashBatch(b)
    \/ HashJoin
    \/ \E c \in 0..(MaxImages - 1) : LshChunk(c)
    \/ Verify
    \/ VerifyAbort
    \/ Group
    \/ Assemble
    \/ CallAgain

Spec == Init /\ [][Next]_vars

(***************************************************************************)
(* SpecIndex: one LSHIndex under a sequence of add and batch_add calls.    *)
(* request.hashes is the fingerprint vector of the caller; index i is      *)
(* always given with hashes[i], as in lsh.rs.  add is called for any       *)
(* index, batch_add for any prefix of the vector with start_index 0.       *)
(* results[i] is Some(hash) once index i has been given to the index;      *)
(* image_hashes holds the argument of the batch_add that is running; run   *)
(* counts the calls.                                                       *)
(***************************************************************************)
\* A with the contents of bands 0 and 1, and of bands 2 and 3, exchanged
\* (bands of 16 bits)
ShiftedBands == BinaryString({2, 17, 36, 51})

IndexPalette(algorithm) ==
    IF algorithm = "Exact"
    THEN <<HexString(1), HexString(2)>>
    ELSE <<BinaryString(BitPattern(1)), BinaryString(BitPattern(2)),
           BinaryString(BitPattern(3)), ShiftedBands>>

InitIndex ==
    LET
        IndexRequests ==
            UNION {{[algorithm |-> a,
                     hashes |-> [i \in 0..(MaxImages - 1) |-> IndexPalette(a)[f[i]]]] :
                       f \in {g \in [0..(MaxImages - 1) -> 1..Len(IndexPalette(a))] :
                                 Ascending(g)}} :
                   a \in Algorithms}
    IN
    /\ request \in IndexRequests
    /\ pc = "ready"
    /\ run = 0
    /\ SIMILARITY_CACHE = [some |-> FALSE, map |-> EmptyMap]
    /\ all_image_paths = <<>>
    /\ results = [i \in 0..(MaxImages - 1) |-> <<>>]
    /\ pending = {}
    /\ error_count = 0
    /\ image_hashes = <<>>
    /\ buckets = EmptyMap
    /\ candidate_pairs = {}
    /\ similarity_results = {}
    /\ disjoint_set = DisjointSetNew(0)
    /\ result = NoResult
    /\ prev_result = NoResult

\* lsh.add(&hashes[i], i)
IndexAdd(i) ==
    /\ pc = "ready"
    /\ run < MaxCalls
    /\ buckets' = add(buckets, request.hashes[i], i, request.algorithm)
    /\ results' = [results EXCEPT ![i] = <<request.hashes[i]>>]
    /\ run' = run + 1
    /\ UNCHANGED <<request, pc, SIMILARITY_CACHE, all_image_paths, pending,
                   error_count, image_hashes, candidate_pairs,
                   similarity_results, disjoint_set, result, prev_result>>

\* lsh.batch_add(&hashes[0..n], 0) up to its parallel part
IndexBatchAdd(n) ==
    /\ pc = "ready"
    /\ run < MaxCalls
    /\ run' = run + 1
    /\ image_hashes' = [i \in 0..(n - 1) |-> [hash |-> request.hashes[i]]]
    /\ IF n <= SerialAddMax
       THEN /\ buckets' = SerialAdd(buckets, request.hashes, 0, n, request.algorithm)
            /\ results' = [i \in DOMAIN results |->
                             IF i < n THEN <<request.hashes[i]>> ELSE results[i]]
            /\ UNCHANGED <<pc, pending>>
       ELSE /\ pending' = 0..(NumChunks(n) - 1)
            /\ pc' = "indexing"
            /\ UNCHANGED <<buckets, results>>
    /\ UNCHANGED <<request, SIMILARITY_CACHE, all_image_paths, error_count,
                   candidate_pairs, similarity_results, disjoint_set, result,
                   prev_result>>

\* the parallel batch_add returns when every chunk has been applied
IndexBatchReturn ==
    /\ pc = "indexing"
    /\ pending = {}
    /\ pc' = "ready"
    /\ results' = [i \in DOMAIN results |->
                     IF i < NumHashes THEN <<request.hashes[i]>> ELSE results[i]]
    /\ UNCHANGED <<request, run, SIMILARITY_CACHE, all_image_paths, pending,
                   error_count, image_hashes, buckets, candidate_pairs,
                   similarity_results, disjoint_set, result, prev_result>>

NextIndex ==
    \/ \E i \in 0..(MaxImages - 1) : IndexAdd(i)
    \/ \E n \in 0..MaxImages : IndexBatchAdd(n)
    \/ \E c \in 0..(MaxImages - 1) : LshChunk(c)
    \/ IndexBatchReturn

SpecIndex == InitIndex /\ [][NextIndex]_vars

(***************************************************************************)
(* SpecLarge: compute_candidate_pairs on an input that takes the batched   *)
(* path, compute_pairs_large_dataset.  request.hashes is the input.  In    *)
(* the first phase one worker per batch merges its local pairs into        *)
(* result_pairs (candidate_pairs) under the lock; the per-batch indices of *)
(* the second phase are a function of the input; in the third phase        *)
(* worker i queries the index of batch i with the hashes of every later    *)
(* batch j, in order of j, and merges the cross pairs under the lock.      *)
(* pending holds the batches (first phase) or the pairs <<i, j>> of        *)
(* batches (third phase) not yet merged; result is the returned Vec.       *)
(***************************************************************************)
batch_size(algorithm) ==
    CASE algorithm = "ORB" -> LargeBatch
      [] algorithm = "Exact" -> 2 * LargeBatch
      [] OTHER -> LargeBatch

batch_count(n, algorithm) ==
    (n + batch_size(algorithm) - 1) \div batch_size(algorithm)

BatchStart(b, algorithm) == b * batch_size(algorithm)

\* &hashes[start..end], indexed from 0
BatchSlice(hashes, b, n, algorithm) ==
    LET
        BatchEnd(b_, n_, algorithm_) == Min(BatchStart(b_, algorithm_) + batch_size(algorithm_), n_)
    IN
    [i \in 0..(BatchEnd(b, n, algorithm) - BatchStart(b, algorithm) - 1) |->
        hashes[BatchStart(b, algorithm) + i]]

\* the LSHIndex of batch b: lsh.add(hash, i) for the hashes of the batch
BatchIndex(hashes, b, n, algorithm) ==
    LET batch == BatchSlice(hashes, b, n, algorithm)
    IN SerialAdd(EmptyMap, batch, 0, Cardinality(DOMAIN batch), algorithm)

\* cross_pairs with the i_start of the pair left out
CrossPairsNoStart(hashes, i, j, n, algorithm) ==
    LET j_batch == BatchSlice(hashes, j, n, algorithm)
        i_lsh == BatchIndex(hashes, i, n, algorithm)
        j_start == BatchStart(j, algorithm)
    IN UNION {{<<i_idx, j_idx + j_start>> :
                  i_idx \in Range(query(i_lsh, j_batch[j_idx], algorithm))} :
              j_idx \in DOMAIN j_batch}

\* cross_pairs of batches i < j
CrossPairs(hashes, i, j, n, algorithm) ==
    LET j_batch == BatchSlice(hashes, j, n, algorithm)
        i_lsh == BatchIndex(hashes, i, n, algorithm)
        i_start == BatchStart(i, algorithm)
        j_start == BatchStart(j, algorithm)
    IN UNION {{<<i_idx + i_start, j_idx + j_start>> :
                  i_idx \in Range(query(i_lsh, j_batch[j_idx], algorithm))} :
              j_idx \in DOMAIN j_batch}

\* a fingerprint of ones only: no band of it equals a band of A
AllOnes == BinaryString(1..HashLen)

LargePalette(algorithm) ==
    IF algorithm = "Exact" THEN IndexPalette(algorithm)
    ELSE <<BinaryString(BitPattern(1)), ShiftedBands, AllOnes>>

InputLen == Cardinality(DOMAIN request.hashes)

InitLarge ==
    LET
        LargeRequests ==
            UNION {{[algorithm |-> a,
                     hashes |-> [i \in 0..(n - 1) |-> LargePalette(a)[f[i]]]] :
                       f \in [0..(n - 1) -> 1..Len(LargePalette(a))]} :
                   a \in Algorithms, n \in (SmallDatasetMax + 1)..MaxImages}
    IN
    /\ request \in LargeRequests
    /\ pc = "called"
    /\ run = 0
    /\ SIMILARITY_CACHE = [some |-> FALSE, map |-> EmptyMap]
    /\ all_image_paths = <<>>
    /\ results = <<>>
    /\ pending = {}
    /\ error_count = 0
    /\ image_hashes = <<>>
    /\ buckets = EmptyMap
    /\ candidate_pairs = {}
    /\ similarity_results = {}
    /\ disjoint_set = DisjointSetNew(0)
    /\ result = <<>>
    /\ prev_result = NoResult

\* compute_candidate_pairs dispatches to compute_pairs_large_dataset
LargeStart ==
    /\ pc = "called"
    /\ InputLen > SmallDatasetMax
    /\ pending' = 0..(batch_count(InputLen, request.algorithm) - 1)
    /\ pc' = "intra"
    /\ UNCHANGED <<request, run, SIMILARITY_CACHE, all_image_paths, results,
                   error_count, image_hashes, buckets, candidate_pairs,
                   similarity_results, disjoint_set, result, prev_result>>

\* a worker of the first phase takes the lock: guard.extend(local_pairs)
IntraMerge(b) ==
    LET
        \* local_pairs of batch b
        LocalPairs(hashes_, b_, n_, algorithm_) ==
            LET batch == BatchSlice(hashes_, b_, n_, algorithm_)
                start == BatchStart(b_, algorithm_)
                local == QueryPairs(BatchIndex(hashes_, b_, n_, algorithm_), batch,
                                    Cardinality(DOMAIN batch), algorithm_)
            IN {<<p[1] + start, p[2] + start>> : p \in local}
    IN
    /\ pc = "intra"
    /\ b \in pending
    /\ candidate_pairs' = candidate_pairs
                            \cup LocalPairs(request.hashes, b, InputLen, request.algorithm)
    /\ pending' = pending \ {b}
    /\ UNCHANGED <<request, pc, run, SIMILARITY_CACHE, all_image_paths, results,
                   error_count, image_hashes, buckets, similarity_results,
                   disjoint_set, result, prev_result>>

\* the first phase has joined; the third starts
CrossStart ==
    /\ pc = "intra"
    /\ pending = {}
    /\ pending' = {p \in (0..(batch_count(InputLen, request.algorithm) - 1))
                           \X (0..(batch_count(InputLen, request.algorithm) - 1)) :
                      p[1] < p[2]}
    /\ pc' = "cross"
    /\ UNCHANGED <<request, run, SIMILARITY_CACHE, all_image_paths, results,
                   error_count, image_hashes, buckets, candidate_pairs,
                   similarity_results, disjoint_set, result, prev_result>>

\* worker i of the third phase merges the cross pairs of its next batch j
CrossMerge(i, j) ==
    /\ pc = "cross"
    /\ <<i, j>> \in pending
    /\ \A q \in pending : q[1] = i => j <= q[2]
    /\ candidate_pairs' = candidate_pairs
                            \cup CrossPairs(request.hashes, i, j, InputLen,
                                            request.algorithm)
    /\ pending' = pending \ {<<i, j>>}
    /\ UNCHANGED <<request, pc, run, SIMILARITY_CACHE, all_image_paths, results,
                   error_count, image_hashes, buckets, similarity_results,
                   disjoint_set, result, prev_result>>

\* result_pairs is turned into a Vec, sorted and returned
LargeReturn ==
    /\ pc = "cross"
    /\ pending = {}
    /\ result' = PairsAscending(candidate_pairs, InputLen)
    /\ pc' = "returned"
    /\ UNCHANGED <<request, run, SIMILARITY_CACHE, all_image_paths, results,
                   pending, error_count, image_hashes, buckets, candidate_pairs,
                   similarity_results, disjoint_set, prev_result>>

NextLarge ==
    \/ LargeStart
    \/ \E b \in 0..(MaxImages - 1) : IntraMerge(b)
    \/ CrossStart
    \/ \E i, j \in 0..(MaxImages - 1) : CrossMerge(i, j)
    \/ LargeReturn

SpecLarge == InitLarge /\ [][NextLarge]_vars

(***************************************************************************)
(* SpecOverlap: two calls of detect_duplicates that overlap in time, each  *)
(* on its own thread with its own request, and the workers of their        *)
(* verification closures.  request, pc, candidate_pairs,                   *)
(* similarity_results and result hold one value per call; pending holds,   *)
(* per call and candidate pair, the position of the closure that verifies  *)
(* the pair and the score it has; SIMILARITY_CACHE is the one static of    *)
(* the process.  cache.get and cache.insert are not atomic: a worker is    *)
(* inside one from its Enter step to its Leave step.                       *)
(***************************************************************************)
Calls == {1, 2}

\* image_hashes of call c: every file of these requests has a fingerprint
CallHashes(c) ==
    [i \in DOMAIN request[c].files |->
        calculate_hash(request[c].files[i], request[c].algorithm)]

CallStrings(c) == [i \in DOMAIN request[c].files |-> CallHashes(c)[i].hash]

CallLen(c) == Cardinality(DOMAIN request[c].files)

Workers == UNION {{<<c, p>> : p \in DOMAIN pending[c]} : c \in Calls}

Pos(w) == pending[w[1]][w[2]].pos

Inside(w) == Pos(w) \in {"in_get", "in_insert"}

InitOverlap ==
    LET
        OverlapRequests ==
            LET
                OverlapFiles ==
                    {f \in FileVectors : /\ Cardinality(DOMAIN f) \in {2, 3}
                                         /\ f[0] = 1
                                         /\ \A i, j \in DOMAIN f : i < j => f[i] < f[j]}
            IN
            {[files |-> f, meta_fail |-> {}, algorithm |-> "Average", threshold |-> 90,
              folder_error |-> FALSE, folders |-> 1] : f \in OverlapFiles}
            \cup
            {[files |-> <<>>, meta_fail |-> {}, algorithm |-> "Average", threshold |-> 90,
              folder_error |-> TRUE, folders |-> 1]}
    IN
    /\ request \in [Calls -> OverlapRequests]
    /\ pc = [c \in Calls |-> "idle"]
    /\ run = 0
    /\ SIMILARITY_CACHE = [some |-> FALSE, map |-> EmptyMap]
    /\ all_image_paths = <<>>
    /\ results = <<>>
    /\ pending = [c \in Calls |-> <<>>]
    /\ error_count = 0
    /\ image_hashes = <<>>
    /\ buckets = EmptyMap
    /\ candidate_pairs = [c \in Calls |-> {}]
    /\ similarity_results = [c \in Calls |-> {}]
    /\ disjoint_set = DisjointSetNew(0)
    /\ result = [c \in Calls |-> NoResult]
    /\ prev_result = NoResult

\* detect_duplicates is entered: the cache is created or cleared
Enter(c) ==
    /\ pc[c] = "idle"
    /\ SIMILARITY_CACHE' = [some |-> TRUE, map |-> EmptyMap]
    /\ pc' = [pc EXCEPT ![c] = "running"]
    /\ UNCHANGED <<request, run, all_image_paths, results, pending, error_count,
                   image_hashes, buckets, candidate_pairs, similarity_results,
                   disjoint_set, result, prev_result>>

\* enumeration, fingerprints and candidate pairs: Err is returned at once,
\* otherwise the closures of the candidate pairs are ready to run
Prepare(c) ==
    LET
        \* compute_candidate_pairs of call c; no bucket of these inputs fills up, so
        \* the order in which batch_add commits its chunks makes no difference
        CallPairs(c_) ==
            QueryPairs(SerialAdd(EmptyMap, CallStrings(c_), 0, CallLen(c_), request[c_].algorithm),
                       CallStrings(c_), CallLen(c_), request[c_].algorithm)
    IN
    /\ pc[c] = "running"
    /\ IF request[c].folder_error
       THEN /\ result' = [result EXCEPT ![c] = ErrResult("enumeration")]
            /\ pc' = [pc EXCEPT ![c] = "returned"]
            /\ UNCHANGED <<candidate_pairs, pending>>
       ELSE /\ candidate_pairs' = [candidate_pairs EXCEPT ![c] = CallPairs(c)]
            /\ pending' = [pending EXCEPT ![c] =
                              [p \in CallPairs(c) |-> [pos |-> "waiting", sim |-> <<>>]]]
            /\ pc' = [pc EXCEPT ![c] = "verifying"]
            /\ UNCHANGED result
    /\ UNCHANGED <<request, run, SIMILARITY_CACHE, all_image_paths, results,
                   error_count, image_hashes, buckets, similarity_results,
                   disjoint_set, prev_result>>

\* a thread of the pool takes the pair and enters cache.get(&cache_key)
GetEnter(c, p) ==
    /\ pc[c] = "verifying"
    /\ p \in DOMAIN pending[c]
    /\ pending[c][p].pos = "waiting"
    /\ Cardinality({q \in DOMAIN pending[c] :
                       pending[c][q].pos \notin {"waiting", "finished"}}) < NumThreads
    /\ pending' = [pending EXCEPT ![c][p].pos = "in_get"]
    /\ UNCHANGED <<request, pc, run, SIMILARITY_CACHE, all_image_paths, results,
                   error_count, image_hashes, buckets, candidate_pairs,
                   similarity_results, disjoint_set, result, prev_result>>

\* cache.get returns: the cached score, or None and the score is computed
GetLeave(c, p) ==
    /\ pc[c] = "verifying"
    /\ p \in DOMAIN pending[c]
    /\ pending[c][p].pos = "in_get"
    /\ LET key == cache_key(CallStrings(c), p[1], p[2])
       IN IF key \in DOMAIN SIMILARITY_CACHE.map
          THEN pending' = [pending EXCEPT ![c][p] =
                              [pos |-> "finished", sim |-> <<SIMILARITY_CACHE.map[key]>>]]
          ELSE pending' = [pending EXCEPT ![c][p] =
                              [pos |-> "computed",
                               sim |-> <<ComputeSim(CallStrings(c), p[1], p[2],
                                                    request[c].algorithm)>>]]
    /\ UNCHANGED <<request, pc, run, SIMILARITY_CACHE, all_image_paths, results,
                   error_count, image_hashes, buckets, candidate_pairs,
                   similarity_results, disjoint_set, result, prev_result>>

\* the closure enters cache.insert(cache_key, sim)
InsertEnter(c, p) ==
    /\ pc[c] = "verifying"
    /\ p \in DOMAIN pending[c]
    /\ pending[c][p].pos = "computed"
    /\ pending' = [pending EXCEPT ![c][p].pos = "in_insert"]
    /\ UNCHANGED <<request, pc, run, SIMILARITY_CACHE, all_image_paths, results,
                   error_count, image_hashes, buckets, candidate_pairs,
                   similarity_results, disjoint_set, result, prev_result>>

\* cache.insert returns; an insert that overlapped another access of the map
\* may be lost
InsertLeave(c, p, lost) ==
    LET
        \* another closure is inside an access of the map while w is inside one
        Raced(w) == \E v \in Workers \ {w} : Inside(v)
    IN
    /\ pc[c] = "verifying"
    /\ p \in DOMAIN pending[c]
    /\ pending[c][p].pos = "in_insert"
    /\ lost => Raced(<<c, p>>)
    /\ LET key == cache_key(CallStrings(c), p[1], p[2])
       IN SIMILARITY_CACHE' =
            IF lost THEN SIMILARITY_CACHE
            ELSE [SIMILARITY_CACHE EXCEPT !.map =
                    [k \in DOMAIN SIMILARITY_CACHE.map \cup {key} |->
                        IF k = key THEN pending[c][p].sim[1]
                        ELSE SIMILARITY_CACHE.map[k]]]
    /\ pending' = [pending EXCEPT ![c][p].pos = "finished"]
    /\ UNCHANGED <<request, pc, run, all_image_paths, results, error_count,
                   image_hashes, buckets, candidate_pairs, similarity_results,
                   disjoint_set, result, prev_result>>

\* an insert that overlaps another access corrupts the map and the process
\* aborts
RaceAbort ==
    /\ \E w, v \in Workers : w # v /\ Pos(w) = "in_insert" /\ Inside(v)
    /\ pc' = [c \in Calls |-> "aborted"]
    /\ UNCHANGED <<request, run, SIMILARITY_CACHE, all_image_paths, results,
                   pending, error_count, image_hashes, buckets, candidate_pairs,
                   similarity_results, disjoint_set, result, prev_result>>

\* the filter, the groups, the clearing of the cache and the return of Ok
Return(c) ==
    /\ pc[c] = "verifying"
    /\ \A p \in DOMAIN pending[c] : pending[c][p].pos = "finished"
    /\ LET kept == {p \in DOMAIN pending[c] :
                       F32Geq(pending[c][p].sim[1], [n |-> request[c].threshold, d |-> 1])}
           n == CallLen(c)
       IN /\ similarity_results' = [similarity_results EXCEPT ![c] = kept]
          /\ \E order \in EdgeOrders(kept, n) :
               LET gm == group_map(UnionAll(DisjointSetNew(n), order), n)
               IN \E ord \in Orderings(DOMAIN gm) :
                    result' = [result EXCEPT ![c] =
                                 OkResult(SortGroups(
                                    BuildGroups(gm, ord, [i \in 0..(n - 1) |-> i],
                                                CallHashes(c), request[c].meta_fail,
                                                request[c].threshold)))]
    /\ SIMILARITY_CACHE' = [SIMILARITY_CACHE EXCEPT !.map = EmptyMap]
    /\ pc' = [pc EXCEPT ![c] = "returned"]
    /\ UNCHANGED <<request, run, all_image_paths, results, pending, error_count,
                   image_hashes, buckets, candidate_pairs, disjoint_set, prev_result>>

PairSlots == (0..(MaxImages - 1)) \X (0..(MaxImages - 1))

NextOverlap ==
    \/ \E c \in Calls : Enter(c)
    \/ \E c \in Calls : Prepare(c)
    \/ \E c \in Calls : \E p \in PairSlots : GetEnter(c, p)
    \/ \E c \in Calls : \E p \in PairSlots : GetLeave(c, p)
    \/ \E c \in Calls : \E p \in PairSlots : InsertEnter(c, p)
    \/ \E c \in Calls : \E p \in PairSlots : \E lost \in BOOLEAN :
          InsertLeave(c, p, lost)
    \/ RaceAbort
    \/ \E c \in Calls : Return(c)

SpecOverlap == InitOverlap /\ [][NextOverlap]_vars

(***************************************************************************)
(* SpecOrb: a descriptor list is serialized, the string is decoded as      *)
(* calculate_orb_similarity does, and the bytes are deserialized.          *)
(* request.descriptors is the list, results the feature string,            *)
(* image_hashes the decoded bytes and result the outcome of                *)
(* deserialize_features.                                                   *)
(***************************************************************************)
InitOrb ==
    LET
        DescriptorLists ==
            LET
                \* descriptors with every byte position of x, y and angle in use; the last
                \* angle is a NaN
                DescriptorPalette ==
                    <<[x |-> 0, y |-> 0, angle |-> [sign |-> 0, exponent |-> 0, mantissa |-> 0],
                       data |-> [k \in 1..DescBytes |-> 0]],
                      [x |-> 16909060, y |-> 255,
                       angle |-> [sign |-> 1, exponent |-> 127, mantissa |-> 4194304],
                       data |-> [k \in 1..DescBytes |-> 255]],
                      [x |-> 2147483647, y |-> 65536,
                       angle |-> [sign |-> 0, exponent |-> 255, mantissa |-> 4194305],
                       data |-> [k \in 1..DescBytes |-> 61 + k]],
                      [x |-> 640, y |-> 479,
                       angle |-> [sign |-> 0, exponent |-> 128, mantissa |-> 4788187],
                       data |-> [k \in 1..DescBytes |-> (k * 131) % 256]]>>
            IN
            UNION {[1..n -> Range(DescriptorPalette)] : n \in 0..(MaxFeatures + 1)}
    IN
    /\ request \in {[descriptors |-> x] : x \in DescriptorLists}
    /\ pc = "extracted"
    /\ run = 0
    /\ SIMILARITY_CACHE = [some |-> FALSE, map |-> EmptyMap]
    /\ all_image_paths = <<>>
    /\ results = <<>>
    /\ pending = {}
    /\ error_count = 0
    /\ image_hashes = <<>>
    /\ buckets = EmptyMap
    /\ candidate_pairs = {}
    /\ similarity_results = {}
    /\ disjoint_set = DisjointSetNew(0)
    /\ result = <<>>
    /\ prev_result = NoResult

\* calculate_orb_features: let hash = serialize_features(&descriptors)
Serialize ==
    /\ pc = "extracted"
    /\ results' = serialize_features(request.descriptors)
    /\ pc' = "serialized"
    /\ UNCHANGED <<request, run, SIMILARITY_CACHE, all_image_paths, pending,
                   error_count, image_hashes, buckets, candidate_pairs,
                   similarity_results, disjoint_set, result, prev_result>>

\* calculate_orb_similarity: general_purpose::STANDARD.decode(features1)
Decode ==
    /\ pc = "serialized"
    /\ image_hashes' = Base64Decode(results)
    /\ pc' = "decoded"
    /\ UNCHANGED <<request, run, SIMILARITY_CACHE, all_image_paths, results,
                   pending, error_count, buckets, candidate_pairs,
                   similarity_results, disjoint_set, result, prev_result>>

\* calculate_orb_similarity: deserialize_features(&data1), Err of decode
\* passed on by ?
Deserialize ==
    /\ pc = "decoded"
    /\ result' = IF image_hashes = <<>> THEN <<>>
                 ELSE deserialize_features(image_hashes[1])
    /\ pc' = "deserialized"
    /\ UNCHANGED <<request, run, SIMILARITY_CACHE, all_image_paths, results,
                   pending, error_count, image_hashes, buckets, candidate_pairs,
                   similarity_results, disjoint_set, prev_result>>

NextOrb == Serialize \/ Decode \/ Deserialize

SpecOrb == InitOrb /\ [][NextOrb]_vars

(***************************************************************************)
(* SpecSim: calculate_similarity on two fingerprints of one of the         *)
(* bit-hash algorithms, which are strings of 64 '0'/'1' characters, the    *)
(* way the verification closure of find_duplicate_groups computes the      *)
(* score.  request holds the arguments; result holds the score of          *)
(* (hash1, hash2), of (hash2, hash1) and of (hash1, hash1), and the score  *)
(* of the closure for a cache without the pair.                            *)
(***************************************************************************)
BitAlgorithms == {"Average", "Difference", "Perceptual"}

InitSim ==
    LET
        \* the fingerprints calculate_orb_features makes of up to MaxFeatures
        \* descriptors
        OrbFingerprints ==
            LET
                \* descriptors whose data are 0, 1, 2 or all bits apart
                MatchPalette ==
                    {[x |-> 10 * v, y |-> v, angle |-> [sign |-> 0, exponent |-> 0, mantissa |-> 0],
                      data |-> [k \in 1..DescBytes |-> IF k = 1 THEN v ELSE 0]] : v \in {0, 1, 3}}
                    \cup
                    {[x |-> 7, y |-> 7, angle |-> [sign |-> 0, exponent |-> 0, mantissa |-> 0],
                      data |-> [k \in 1..DescBytes |-> 255]]}
            IN
            {serialize_features(x) :
                x \in UNION {[1..n -> MatchPalette] : n \in 0..MaxFeatures}}
    IN
    LET
        ExactFingerprints ==
            LET
                BinaryDigestB ==
                    BinaryString({6, 12, 19, 28, 29, 35, 38, 40, 41, 42, 43, 53, 64})
            IN
            LET
                \* two digests of the hex digits 0 and 1 only, with the same hash_to_u64
                BinaryDigestA ==
                    BinaryString({2, 5, 7, 8, 15, 18, 24, 25, 30, 33, 36, 44, 45, 46, 49, 50, 51, 52, 54, 61, 63})
            IN {HexString(c) : c \in Contents} \cup {BinaryDigestA, BinaryDigestB}
    IN
    LET
        BitFingerprints ==
            {BinaryString(BitPattern(c)) : c \in Contents}
              \cup {ShiftedBands, AllOnes, BinaryString({})}
    IN
    LET
        SimRequests ==
            {[hash1 |-> x, hash2 |-> y, algorithm |-> a] :
                x \in BitFingerprints, y \in BitFingerprints, a \in BitAlgorithms}
            \cup
            {[hash1 |-> x, hash2 |-> y, algorithm |-> "Exact"] :
                x \in ExactFingerprints, y \in ExactFingerprints}
            \cup
            {[hash1 |-> x, hash2 |-> y, algorithm |-> "ORB"] :
                x \in OrbFingerprints, y \in OrbFingerprints}
    IN
    /\ request \in SimRequests
    /\ pc = "called"
    /\ run = 0
    /\ SIMILARITY_CACHE = [some |-> TRUE, map |-> EmptyMap]
    /\ all_image_paths = <<>>
    /\ results = <<>>
    /\ pending = {}
    /\ error_count = 0
    /\ image_hashes = <<>>
    /\ buckets = EmptyMap
    /\ candidate_pairs = {}
    /\ similarity_results = {}
    /\ disjoint_set = DisjointSetNew(0)
    /\ result = <<>>
    /\ prev_result = NoResult

Similarity ==
    /\ pc = "called"
    /\ result' =
         [forward  |-> calculate_similarity(request.hash1, request.hash2, request.algorithm),
          backward |-> calculate_similarity(request.hash2, request.hash1, request.algorithm),
          self     |-> calculate_similarity(request.hash1, request.hash1, request.algorithm),
          verify   |-> PairSim(SIMILARITY_CACHE,
                               [i \in 0..1 |-> IF i = 0 THEN request.hash1
                                               ELSE request.hash2],
                               0, 1, request.algorithm)]
    /\ pc' = "returned"
    /\ UNCHANGED <<request, run, SIMILARITY_CACHE, all_image_paths, results,
                   pending, error_count, image_hashes, buckets, candidate_pairs,
                   similarity_results, disjoint_set, prev_result>>

NextSim == Similarity

SpecSim == InitSim /\ [][NextSim]_vars

(***************************************************************************)
(* SpecApi: find_duplicates, which turns the request into the parameters   *)
(* of detect_duplicates and returns its result, on requests whose folder   *)
(* may be missing or a plain file and whose threshold may lie outside      *)
(* 0..100.  similarity_threshold is a u32 in the request and an f32 in the *)
(* parameters; a caller of detect_duplicates can pass a negative one.      *)
(***************************************************************************)
InitApi ==
    LET
        \* get_image_paths: Err for !dir_path.exists() and for !dir_path.is_dir()
        get_image_paths_fails(folder_state_) ==
            folder_state_ = "missing" \/ folder_state_ = "file"
    IN
    LET
        ApiRequests ==
            LET
                ApiThresholds == {-1, 90, 101}
            IN
            LET
                FolderStates == {"dir", "missing", "file"}
            IN
            {[files |-> IF get_image_paths_fails(fs) THEN <<>> ELSE f,
              meta_fail |-> {}, algorithm |-> a, threshold |-> t,
              folder_error |-> get_image_paths_fails(fs), folders |-> 1,
              folder_state |-> fs] :
                f \in {g \in FileVectors : Cardinality(DOMAIN g) <= ExhaustiveLen},
                a \in Algorithms, t \in ApiThresholds, fs \in FolderStates}
    IN
    /\ request \in ApiRequests
    /\ pc = "idle"
    /\ run = 1
    /\ SIMILARITY_CACHE = [some |-> FALSE, map |-> EmptyMap]
    /\ LocalsInit
    /\ result = NoResult
    /\ prev_result = NoResult

SpecApi == InitApi /\ [][Next]_vars

(***************************************************************************)
(* SpecDsu: one DisjointSet of DsuSize elements under any sequence of      *)
(* union and find calls.  candidate_pairs holds the edges {x, y} passed to *)
(* union so far, result the argument and the return value of the last      *)
(* find.                                                                   *)
(***************************************************************************)
Elements == 0..(DsuSize - 1)

InitDsu ==
    /\ request = [size |-> DsuSize]
    /\ pc = "ready"
    /\ run = 0
    /\ SIMILARITY_CACHE = [some |-> FALSE, map |-> EmptyMap]
    /\ all_image_paths = <<>>
    /\ results = <<>>
    /\ pending = {}
    /\ error_count = 0
    /\ image_hashes = <<>>
    /\ buckets = EmptyMap
    /\ candidate_pairs = {}
    /\ similarity_results = {}
    /\ disjoint_set = DisjointSetNew(request.size)
    /\ result = <<>>
    /\ prev_result = NoResult

\* disjoint_set.union(x, y)
DsuUnion(x, y) ==
    /\ pc = "ready"
    /\ disjoint_set' = union(disjoint_set, x, y)
    /\ candidate_pairs' = candidate_pairs \cup {{x, y}}
    /\ UNCHANGED <<request, pc, run, SIMILARITY_CACHE, all_image_paths, results,
                   pending, error_count, image_hashes, buckets, similarity_results,
                   result, prev_result>>

\* disjoint_set.find(x)
DsuFind(x) ==
    /\ pc = "ready"
    /\ disjoint_set' = [disjoint_set EXCEPT !.parent = FindCompress(disjoint_set.parent, x)]
    /\ result' = <<x, Root(disjoint_set.parent, x)>>
    /\ UNCHANGED <<request, pc, run, SIMILARITY_CACHE, all_image_paths, results,
                   pending, error_count, image_hashes, buckets, candidate_pairs,
                   similarity_results, prev_result>>

NextDsu ==
    \/ \E x, y \in Elements : DsuUnion(x, y)
    \/ \E x \in Elements : DsuFind(x)

SpecDsu == InitDsu /\ [][NextDsu]_vars

(***************************************************************************)
(* SpecFast: the corner test that detect_fast_keypoints applies to one     *)
(* pixel (algorithms/orb.rs).  request holds the intensity of the pixel,   *)
(* the intensities of the pixels on its circle and whether the build       *)
(* checks integer overflow (a debug profile panics on an overflowing u8    *)
(* addition or subtraction, a release profile wraps it modulo 256).        *)
(* result holds what the test computed.                                    *)
(***************************************************************************)
\* detect_fast_keypoints(&gray_img, 20, 500): the threshold
fast_threshold == 20

radius == 3

\* get_bresenham_circle_pattern(radius), entry k + 1 being (k) of the source
circle_pattern ==
    LET r == radius
    IN << <<0, -r>>, <<1, -r + 1>>, <<2, -r + 2>>, <<r - 1, -1>>,
          <<r, 0>>, <<r - 1, 1>>, <<r - 2, 2>>, <<1, r - 1>>,
          <<0, r>>, <<-1, r - 1>>, <<-2, r - 2>>, <<-r + 1, 1>>,
          <<-r, 0>>, <<-r + 1, -1>>, <<-r + 2, -2>>, <<-1, -r + 1>> >>

RingPositions == 0..15

\* current_img.get_pixel(px, py)[0] for every entry of the pattern
RingValues(patch) == [k \in RingPositions |-> patch[circle_pattern[k + 1]]]

\* center_val + threshold and center_val - threshold on u8 without overflow
\* checks
WrappingAdd(a, b) == (a + b) % 256

WrappingSub(a, b) == (a + 256 - b) % 256

\* the class the if / else if chain gives a point of the circle
PointClass(point_val, center_val) ==
    IF point_val > WrappingAdd(center_val, fast_threshold) THEN "brighter"
    ELSE IF point_val < WrappingSub(center_val, fast_threshold) THEN "darker"
    ELSE "neither"

\* the loop over circle_pattern from entry k on: consecutive_count,
\* max_consecutive and is_brighter as the loop keeps them
RECURSIVE ConsecutiveLoop(_, _, _, _, _, _)
ConsecutiveLoop(ring, center_val, k, consecutive_count, max_consecutive, is_brighter) ==
    IF k = 16 THEN Max(max_consecutive, consecutive_count)
    ELSE LET class == PointClass(ring[k], center_val)
         IN CASE class = "brighter" ->
                   IF ~is_brighter
                   THEN ConsecutiveLoop(ring, center_val, k + 1, 1,
                                        Max(max_consecutive, consecutive_count), TRUE)
                   ELSE ConsecutiveLoop(ring, center_val, k + 1, consecutive_count + 1,
                                        max_consecutive, TRUE)
              [] class = "darker" ->
                   IF is_brighter
                   THEN ConsecutiveLoop(ring, center_val, k + 1, 1,
                                        Max(max_consecutive, consecutive_count), FALSE)
                   ELSE ConsecutiveLoop(ring, center_val, k + 1, consecutive_count + 1,
                                        max_consecutive, FALSE)
              [] OTHER ->
                   ConsecutiveLoop(ring, center_val, k + 1, 0,
                                   Max(max_consecutive, consecutive_count), is_brighter)

\* the sum of |point_val - center_val| over the pattern; score is the sum
\* divided by count = 16
RECURSIVE ScoreSum(_, _, _)
ScoreSum(ring, center_val, k) ==
    IF k = 16 THEN 0
    ELSE (IF ring[k] > center_val THEN ring[k] - center_val ELSE center_val - ring[k])
         + ScoreSum(ring, center_val, k + 1)

InitFast ==
    LET
        \* the intensities of the inputs
        Intensities == {0, 60, 128, 200, 255}
    IN
    LET
        \* the pixels of the circle, as offsets from the centre
        Offsets == {circle_pattern[k + 1] : k \in RingPositions}
    IN
    LET
        \* a circle on which the pixels of the entries start .. start + length - 1
        \* (modulo 16) have the intensity inside and the others the intensity outside
        PatchOf(start, length, inside, outside) ==
            [o \in Offsets |->
               LET k == CHOOSE i \in RingPositions :
                           /\ circle_pattern[i + 1] = o
                           /\ \A j \in RingPositions : circle_pattern[j + 1] = o => i <= j
               IN IF (k + 16 - start) % 16 < length THEN inside ELSE outside]
    IN
    LET
        CenterValues == {0, 19, 20, 128, 235, 236, 255}
    IN
    LET
        FastRequests ==
            {[center_val |-> c, patch |-> PatchOf(s, n, v, w), overflow_checks |-> b] :
                c \in CenterValues, s \in RingPositions, n \in 0..16,
                v \in Intensities, w \in Intensities, b \in BOOLEAN}
    IN
    /\ request \in FastRequests
    /\ pc = "pixel"
    /\ run = 0
    /\ SIMILARITY_CACHE = [some |-> FALSE, map |-> EmptyMap]
    /\ all_image_paths = <<>>
    /\ results = <<>>
    /\ pending = {}
    /\ error_count = 0
    /\ image_hashes = <<>>
    /\ buckets = EmptyMap
    /\ candidate_pairs = {}
    /\ similarity_results = {}
    /\ disjoint_set = DisjointSetNew(0)
    /\ result = <<>>
    /\ prev_result = NoResult

\* top, right, bottom and left
CompassPoints == {<<0, -radius>>, <<radius, 0>>, <<0, radius>>, <<-radius, 0>>}

\* the test on top, right, bottom and left
Accelerator ==
    LET
        \* brighter_count >= 3 || darker_count >= 3
        min_accelerator == 3
    IN
    LET
        \* the u8 arithmetic of the test panics in a build with overflow checks
        Overflows(center_val) ==
            \/ center_val + fast_threshold > 255
            \/ center_val < fast_threshold
    IN
    /\ pc = "pixel"
    /\ LET center_val == request.center_val
           brighter_count ==
               Cardinality({o \in CompassPoints :
                   request.patch[o] > WrappingAdd(center_val, fast_threshold)})
           darker_count ==
               Cardinality({o \in CompassPoints :
                   request.patch[o] < WrappingSub(center_val, fast_threshold)})
       IN IF request.overflow_checks /\ Overflows(center_val)
          THEN /\ result' = [kind |-> "panic"]
               /\ pc' = "panicked"
          ELSE /\ result' = [kind |-> "accelerator",
                             brighter_count |-> brighter_count,
                             darker_count |-> darker_count]
               /\ pc' = IF \/ brighter_count >= min_accelerator
                           \/ darker_count >= min_accelerator
                        THEN "candidate" ELSE "skipped"
    /\ UNCHANGED <<request, run, SIMILARITY_CACHE, all_image_paths, results,
                   pending, error_count, image_hashes, buckets, candidate_pairs,
                   similarity_results, disjoint_set, prev_result>>

\* the full test of a pixel that passed, and the score of a corner
SegmentTest ==
    LET
        \* is_corner = max_consecutive >= 12
        min_consecutive == 12
    IN
    /\ pc = "candidate"
    /\ LET center_val == request.center_val
           ring == RingValues(request.patch)
           max_consecutive == ConsecutiveLoop(ring, center_val, 0, 0, 0, FALSE)
       IN result' = [kind |-> "tested",
                     brighter_count |-> result.brighter_count,
                     darker_count |-> result.darker_count,
                     classes |-> [k \in RingPositions |-> PointClass(ring[k], center_val)],
                     max_consecutive |-> max_consecutive,
                     is_corner |-> max_consecutive >= min_consecutive,
                     score |-> [n |-> ScoreSum(ring, center_val, 0), d |-> 16]]
    /\ pc' = "tested"
    /\ UNCHANGED <<request, run, SIMILARITY_CACHE, all_image_paths, results,
                   pending, error_count, image_hashes, buckets, candidate_pairs,
                   similarity_results, disjoint_set, prev_result>>

NextFast == Accelerator \/ SegmentTest

SpecFast == InitFast /\ [][NextFast]_vars

(***************************************************************************)
(* SpecSelect: calculate_orb_features from the corners found on (orb.rs).  *)
(* request.keypoints is the list of corners in the order the scan pushes   *)
(* them, x being the place of a corner and score its score.  image_hashes  *)
(* holds the keypoints detect_fast_keypoints returns, results the feature  *)
(* string and result the HashResult or the error.                          *)
(***************************************************************************)
\* the orders sort_unstable_by(|a, b| b.score.partial_cmp(&a.score)) may
\* leave the keypoints of S in: descending by score, equal scores in any
\* order
RECURSIVE DescendingOrders(_)
DescendingOrders(S) ==
    IF S = {} THEN {<<>>}
    ELSE UNION {{<<m>> \o t : t \in DescendingOrders(S \ {m})} :
                  m \in {k \in S : \A j \in S : F32Geq(k.score, j.score)}}

compute_brief_descriptors(keypoints) ==
    LET
        \* compute_keypoint_orientations and compute_brief_descriptors: one
        \* descriptor for every keypoint, in the order of the keypoints; the angle
        \* and the bits are read from the image around the keypoint
        DescriptorOf(kp) ==
            [x |-> kp.x, y |-> kp.y,
             angle |-> [sign |-> 0, exponent |-> 126 + kp.x, mantissa |-> 0],
             data |-> [k \in 1..DescBytes |-> (kp.x * 37 + k) % 256]]
    IN
    [k \in 1..Len(keypoints) |-> DescriptorOf(keypoints[k])]

InitSelect ==
    LET
        CornerLists ==
            LET
                \* the corners and scores of the inputs
                CornerScores == {[n |-> s, d |-> 16] : s \in {336, 500, 560}}
            IN
            UNION {{[k \in 1..n |-> [x |-> k, y |-> 0, score |-> f[k]]] :
                       f \in [1..n -> CornerScores]} : n \in 0..MaxDetected}
    IN
    /\ request \in {[keypoints |-> l] : l \in CornerLists}
    /\ pc = "scanned"
    /\ run = 0
    /\ SIMILARITY_CACHE = [some |-> FALSE, map |-> EmptyMap]
    /\ all_image_paths = <<>>
    /\ results = <<>>
    /\ pending = {}
    /\ error_count = 0
    /\ image_hashes = <<>>
    /\ buckets = EmptyMap
    /\ candidate_pairs = {}
    /\ similarity_results = {}
    /\ disjoint_set = DisjointSetNew(0)
    /\ result = <<>>
    /\ prev_result = NoResult

\* the end of detect_fast_keypoints, and the test of calculate_orb_features
\* for no keypoint
TruncateKeypoints ==
    /\ pc = "scanned"
    /\ LET keypoints == request.keypoints
       IN IF Len(keypoints) > MaxPoints
          THEN \E sorted \in DescendingOrders(Range(keypoints)) :
                  image_hashes' = SubSeq(sorted, 1, MaxPoints)
          ELSE image_hashes' = keypoints
    /\ IF Len(request.keypoints) = 0
       THEN /\ pc' = "failed"
            /\ result' = [kind |-> "Err"]
       ELSE /\ pc' = "detected"
            /\ result' = result
    /\ UNCHANGED <<request, run, SIMILARITY_CACHE, all_image_paths, results,
                   pending, error_count, buckets, candidate_pairs,
                   similarity_results, disjoint_set, prev_result>>

\* orientations, descriptors and serialize_features
ExtractFeatures ==
    /\ pc = "detected"
    /\ results' = serialize_features(compute_brief_descriptors(image_hashes))
    /\ result' = [kind |-> "Ok", hash |-> results']
    /\ pc' = "extracted"
    /\ UNCHANGED <<request, run, SIMILARITY_CACHE, all_image_paths, pending,
                   error_count, image_hashes, buckets, candidate_pairs,
                   similarity_results, disjoint_set, prev_result>>

NextSelect == TruncateKeypoints \/ ExtractFeatures

SpecSelect == InitSelect /\ [][NextSelect]_vars

(***************************************************************************)
(* SpecPair: are_images_duplicates (detection/duplicate.rs) on two paths   *)
(* of a folder of two files.  A file has a content (Bad: it does not       *)
(* decode), a length in bytes, and fs::metadata succeeds on it or not;     *)
(* the fingerprint of a file depends on its content alone.  request holds  *)
(* the files and the arguments, result what the call returns.              *)
(***************************************************************************)
are_images_duplicates(file1, file2, same_path, algorithm, threshold) ==
    LET
        \* the early Ok(false) of the file-size test
        SizeFilterRejects(file1_, file2_, algorithm_) ==
            LET
                \* size_ratio > 2.0, the f64 quotient of the longer by the shorter length
                SizeRatioAboveTwo(len1, len2) ==
                    IF len1 > len2 THEN len1 > 2 * len2 ELSE len2 > 2 * len1
            IN
            /\ file1_.metadata /\ file2_.metadata
            /\ file1_.len > 0 /\ file2_.len > 0
            /\ \/ algorithm_ = "Exact" /\ file1_.len # file2_.len
               \/ algorithm_ # "Exact" /\ SizeRatioAboveTwo(file1_.len, file2_.len)
    IN
    IF same_path THEN [kind |-> "Ok", value |-> TRUE]
    ELSE IF SizeFilterRejects(file1, file2, algorithm)
    THEN [kind |-> "Ok", value |-> FALSE]
    ELSE IF file1.content = Bad \/ file2.content = Bad THEN [kind |-> "Err"]
    ELSE LET hash1 == calculate_hash(file1.content, algorithm)
             hash2 == calculate_hash(file2.content, algorithm)
             similarity == calculate_similarity(hash1.hash, hash2.hash, algorithm)
         IN [kind |-> "Ok", value |-> F32Geq(similarity, threshold)]

InitPair ==
    LET
        PairFiles ==
            LET
                \* metadata.len() of the files; a file that decodes is not empty
                FileLens == {0, 1, 2, 3}
            IN
            {f \in [content : Contents \cup {Bad}, len : FileLens, metadata : BOOLEAN] :
                f.content # Bad => f.len > 0}
    IN
    LET
        PairRequests ==
            LET
                PairThresholds == {[n |-> 0, d |-> 1], [n |-> 90, d |-> 1], [n |-> 100, d |-> 1]}
            IN
            [file1 : PairFiles, file2 : PairFiles, same_path : BOOLEAN,
             algorithm : Algorithms, threshold : PairThresholds]
    IN
    /\ request \in {r \in PairRequests : r.same_path => r.file1 = r.file2}
    /\ pc = "called"
    /\ run = 0
    /\ SIMILARITY_CACHE = [some |-> FALSE, map |-> EmptyMap]
    /\ all_image_paths = <<>>
    /\ results = <<>>
    /\ pending = {}
    /\ error_count = 0
    /\ image_hashes = <<>>
    /\ buckets = EmptyMap
    /\ candidate_pairs = {}
    /\ similarity_results = {}
    /\ disjoint_set = DisjointSetNew(0)
    /\ result = <<>>
    /\ prev_result = NoResult

AreImagesDuplicates ==
    /\ pc = "called"
    /\ result' = are_images_duplicates(request.file1, request.file2, request.same_path,
                                       request.algorithm, request.threshold)
    /\ pc' = "returned"
    /\ UNCHANGED <<request, run, SIMILARITY_CACHE, all_image_paths, results,
                   pending, error_count, image_hashes, buckets, candidate_pairs,
                   similarity_results, disjoint_set, prev_result>>

NextPair == AreImagesDuplicates

SpecPair == InitPair /\ [][NextPair]_vars

(***************************************************************************)
(* What a call returned.                                                   *)
(***************************************************************************)
Returned == pc = "done" /\ result.kind = "Ok"

Groups == result.groups

PathsOf(g) == {g.images[k].path : k \in 1..Len(g.images)}

SameGroup(i, j) == \E k \in 1..Len(Groups) : {i, j} \subseteq PathsOf(Groups[k])

GroupSet(r) == {PathsOf(r.groups[k]) : k \in 1..Len(r.groups)}

GroupSeq(r) == [k \in 1..Len(r.groups) |-> PathsOf(r.groups[k])]

FailedFiles == {i \in DOMAIN request.files : request.files[i] = Bad}

HashedFiles == {i \in DOMAIN request.files : request.files[i] # Bad}

\* the candidate pairs whose similarity under the algorithm of the request
\* reaches the threshold
FilteredEdges ==
    {p \in candidate_pairs :
        F32Geq(calculate_similarity(HashStrings[p[1]], HashStrings[p[2]],
                                    request.algorithm),
               [n |-> request.threshold, d |-> 1])}

RECURSIVE Component(_, _)
Component(S, E) ==
    LET T == S \cup {p[2] : p \in {q \in E : q[1] \in S}}
               \cup {p[1] : p \in {q \in E : q[2] \in S}}
    IN IF T = S THEN S ELSE Component(T, E)

Linked(i, j) == j \in Component({i}, FilteredEdges)

(***************************************************************************)
(* C1: the groups a call returns are pairwise disjoint: no image is in     *)
(* two of the returned groups.                                             *)
(***************************************************************************)
C1_Disjoint ==
    Returned =>
        \A a, b \in 1..Len(Groups) :
            a # b => PathsOf(Groups[a]) \cap PathsOf(Groups[b]) = {}

C1_Witness == Returned /\ Len(Groups) >= 2

(***************************************************************************)
(* C2: every returned group has at least 2 images, also when the metadata  *)
(* of a member of a component cannot be read.                              *)
(***************************************************************************)
C2_MinSize ==
    Returned => \A k \in 1..Len(Groups) : Len(Groups[k].images) >= 2

\* a component of 3 with unreadable metadata for one member, returned as a
\* group of 2
C2_Witness ==
    /\ Returned
    /\ \E i \in request.meta_fail, k \in 1..Len(Groups) :
          /\ PathsOf(Groups[k]) \subseteq Component({i}, FilteredEdges)
          /\ Len(Groups[k].images) = 2

(***************************************************************************)
(* C3: the returned list is sorted by group size, largest first.           *)
(***************************************************************************)
C3_Sorted ==
    Returned =>
        \A k \in 1..(Len(Groups) - 1) :
            Len(Groups[k].images) >= Len(Groups[k + 1].images)

C3_Witness ==
    /\ Returned
    /\ \E k \in 1..(Len(Groups) - 1) :
          Len(Groups[k].images) > Len(Groups[k + 1].images)

C5_PartialRecovery ==
    (pc = "done" /\ FailedFiles # {} /\ HashedFiles # {}) =>
        /\ result.kind = "Ok"
        /\ \A k \in 1..Len(Groups) : PathsOf(Groups[k]) \cap FailedFiles = {}

(***************************************************************************)
(* C6: every ImageInfo of a returned group carries the fingerprint, width  *)
(* and height computed from the file at its own path, whatever files fail  *)
(* and in whatever order the batches commit.                               *)
(***************************************************************************)
C6_Aligned ==
    Returned =>
        \A k \in 1..Len(Groups) : \A m \in 1..Len(Groups[k].images) :
            LET im == Groups[k].images[m]
            IN /\ im.path \in HashedFiles
               /\ [hash |-> im.hash, width |-> im.width, height |-> im.height]
                    = calculate_hash(request.files[im.path], request.algorithm)

\* a group whose members come from two batches and differ in fingerprint
C6_Witness ==
    /\ Returned
    /\ \E k \in 1..Len(Groups) : \E m1, m2 \in 1..Len(Groups[k].images) :
          /\ Groups[k].images[m1].hash # Groups[k].images[m2].hash
          /\ Groups[k].images[m1].path \div BATCH_SIZE
               # Groups[k].images[m2].path \div BATCH_SIZE

(***************************************************************************)
(* C7: with algorithm Exact, two fingerprinted images (metadata readable)  *)
(* are in the same returned group iff their fingerprints are identical,    *)
(* for any number of identical images.                                     *)
(***************************************************************************)
C7_ExactEquivalence ==
    (Returned /\ request.algorithm = "Exact" /\ request.meta_fail = {}) =>
        \A i, j \in HashedFiles :
            i # j => (SameGroup(i, j) <=>
                        calculate_hash(request.files[i], "Exact").hash
                          = calculate_hash(request.files[j], "Exact").hash)

(***************************************************************************)
(* C8: two calls with the same request return the same set of groups.      *)
(***************************************************************************)
C8_SameGroupSet ==
    (pc = "done" /\ run > 1) =>
        /\ result.kind = prev_result.kind
        /\ GroupSet(result) = GroupSet(prev_result)

(***************************************************************************)
(* C9: two calls with the same request return the groups in the same       *)
(* sequence, groups of equal size included.                                *)
(***************************************************************************)
C9_SameGroupOrder ==
    (pc = "done" /\ run > 1) => GroupSeq(result) = GroupSeq(prev_result)

(***************************************************************************)
(* C10: when at least one image is enumerated and fingerprinting fails for *)
(* every one, the call returns an error, not an empty list.                *)
(***************************************************************************)
C10_AllFailed ==
    (pc = "done" /\ NumFiles >= 1 /\ HashedFiles = {}) => result.kind = "Err"

C10_Witness ==
    /\ pc = "done"
    /\ NumFiles > BATCH_SIZE
    /\ HashedFiles = {}
    /\ result = ErrResult("all images failed")

(***************************************************************************)
(* C11: when the folder list is empty, or every folder is a valid          *)
(* directory without an image file, the call returns Ok with an empty      *)
(* list of groups.                                                         *)
(***************************************************************************)
C11_NoImages ==
    (pc = "done" /\ ~request.folder_error /\ NumFiles = 0) =>
        result = OkResult(<<>>)

\* a folder without images, at the second call
C11_Witness ==
    /\ pc = "done"
    /\ run = MaxRuns
    /\ ~request.folder_error
    /\ NumFiles = 0
    /\ request.folders = 1
    /\ result = OkResult(<<>>)
    /\ prev_result = OkResult(<<>>)

(***************************************************************************)
(* The index and the pairs after compute_candidate_pairs has returned.     *)
(***************************************************************************)
PairsComputed == pc \in {"grouping", "assembling", "done"} /\ NumHashes >= 1

KeysOf(i) == Range(BucketKeys(HashStrings[i], request.algorithm))

InBucketOf(i, j) == \E k \in KeysOf(i) \cap DOMAIN buckets : j \in Range(buckets[k])

NoFullBucket == \A k \in DOMAIN buckets : Len(buckets[k]) < max_bucket_size

(***************************************************************************)
(* C12: for an input that takes the single-index path, the candidate pairs *)
(* are exactly the (i, j) with i < j and j in a bucket that fingerprint i  *)
(* maps to; and while no bucket is full, every two indices whose           *)
(* fingerprints share a bucket key are a pair.                             *)
(***************************************************************************)
C12_CandidatePairs ==
    PairsComputed =>
        /\ candidate_pairs =
              {p \in (0..(NumHashes - 1)) \X (0..(NumHashes - 1)) :
                  p[1] < p[2] /\ InBucketOf(p[1], p[2])}
        /\ NoFullBucket =>
              \A i, j \in 0..(NumHashes - 1) :
                  (i < j /\ KeysOf(i) \cap KeysOf(j) # {}) =>
                      <<i, j>> \in candidate_pairs

\* pairs from a parallel batch_add, some fingerprints sharing a key and some
\* not, no bucket full
C12_Witness ==
    /\ PairsComputed
    /\ NumHashes > SerialAddMax
    /\ NoFullBucket
    /\ candidate_pairs # {}
    /\ \E i, j \in 0..(NumHashes - 1) : i < j /\ <<i, j>> \notin candidate_pairs

(***************************************************************************)
(* The indices given to the LSHIndex of SpecIndex, and their keys.         *)
(***************************************************************************)
Given == {i \in DOMAIN results : results[i] # <<>>}

GivenKeys(i) == Range(generate_bucket_keys(results[i][1], request.algorithm))

Full(k) == k \in DOMAIN buckets /\ Len(buckets[k]) = max_bucket_size

(***************************************************************************)
(* C13: after any sequence of add and batch_add calls every bucket holds   *)
(* at most max_bucket_size indices and no index twice, and an index given  *)
(* to the index is in every bucket of its keys that is not full.           *)
(***************************************************************************)
C13_BucketCapacity ==
    /\ \A k \in DOMAIN buckets :
          /\ Len(buckets[k]) <= max_bucket_size
          /\ Cardinality(Range(buckets[k])) = Len(buckets[k])
    /\ pc = "ready" =>
          \A i \in Given : \A k \in GivenKeys(i) :
              /\ k \in DOMAIN buckets
              /\ i \in Range(buckets[k]) \/ Full(k)

\* an index dropped from a full bucket and present in another of its buckets
C13_Witness ==
    /\ pc = "ready"
    /\ \E i \in Given : \E k1, k2 \in GivenKeys(i) :
          /\ Full(k1)
          /\ i \notin Range(buckets[k1])
          /\ ~Full(k2)
          /\ i \in Range(buckets[k2])

(***************************************************************************)
(* The characters of band b (1..nbands) of a bit-hash fingerprint.         *)
(***************************************************************************)
BandOf(hash, b, nbands) ==
    LET band_size == Len(hash) \div nbands
    IN SubSeq(hash, (b - 1) * band_size + 1,
              IF b = nbands THEN Len(hash) ELSE b * band_size)

(***************************************************************************)
(* C14: for the bit-hash algorithms two fingerprints are in a common       *)
(* bucket only if they have the same bits in the same band position, and   *)
(* equal bits in two different band positions never give the same bucket   *)
(* key.                                                                    *)
(***************************************************************************)
C14_BandPosition ==
    request.algorithm \in {"Average", "Difference", "Perceptual"} =>
        LET nb == bands(request.algorithm)
        IN /\ \A k \in DOMAIN buckets : \A i, j \in Range(buckets[k]) :
                 \E b \in 1..nb :
                     BandOf(request.hashes[i], b, nb) = BandOf(request.hashes[j], b, nb)
           /\ \A i, j \in Given : \A b1, b2 \in 1..nb :
                 (b1 # b2 /\ BandOf(request.hashes[i], b1, nb)
                               = BandOf(request.hashes[j], b2, nb)) =>
                     generate_bucket_keys(request.hashes[i], request.algorithm)[b1]
                       # generate_bucket_keys(request.hashes[j], request.algorithm)[b2]

(***************************************************************************)
(* A single index over all fingerprints of the input of SpecLarge, and the *)
(* pairs it gives.                                                         *)
(***************************************************************************)
SingleIndex == SerialAdd(EmptyMap, request.hashes, 0, InputLen, request.algorithm)

SinglePairs == QueryPairs(SingleIndex, request.hashes, InputLen, request.algorithm)

SingleNoFullBucket ==
    \A k \in DOMAIN SingleIndex : Len(SingleIndex[k]) < max_bucket_size

SharesKey(i, j) ==
    Range(generate_bucket_keys(request.hashes[i], request.algorithm))
      \cap Range(generate_bucket_keys(request.hashes[j], request.algorithm)) # {}

(***************************************************************************)
(* C15: the batched construction returns no pair twice, every pair as      *)
(* (a, b) with a < b, and, while no bucket has reached its capacity, the   *)
(* pairs of a single index over all fingerprints: every two indices that   *)
(* share a bucket key, of one batch or of two; for every order in which    *)
(* the workers merge.                                                      *)
(***************************************************************************)
C15_LargeDataset ==
    pc = "returned" =>
        /\ \A a, b \in 1..Len(result) : a # b => result[a] # result[b]
        /\ \A a \in 1..Len(result) : result[a][1] < result[a][2]
        /\ SingleNoFullBucket =>
              /\ Range(result) = SinglePairs
              /\ \A i, j \in 0..(InputLen - 1) :
                    (i < j /\ SharesKey(i, j)) => <<i, j>> \in Range(result)

\* pairs inside a batch and across two batches that are not neighbours, and
\* two indices that are no pair
C15_Witness ==
    /\ pc = "returned"
    /\ SingleNoFullBucket
    /\ batch_count(InputLen, request.algorithm) >= 3
    /\ <<0, 1>> \in Range(result)
    /\ <<0, InputLen - 1>> \in Range(result)
    /\ \E i, j \in 0..(InputLen - 1) : i < j /\ <<i, j>> \notin Range(result)

(***************************************************************************)
(* C16: the key under which the similarity of a candidate pair is          *)
(* memoized is that of (min(i, j), max(i, j)): it is the same for (i, j)   *)
(* and for (j, i) and names the smaller index first, whatever the          *)
(* fingerprints, equal ones included.                                      *)
(***************************************************************************)
MinMaxKey(i, j) == ColonPair(IF i < j THEN i ELSE j, IF i < j THEN j ELSE i)

C16_KeyNormalized ==
    pc \in {"grouping", "assembling", "done"} =>
        \A p \in candidate_pairs :
            /\ cache_key(HashStrings, p[1], p[2]) = MinMaxKey(p[1], p[2])
            /\ cache_key(HashStrings, p[2], p[1]) = cache_key(HashStrings, p[1], p[2])

(***************************************************************************)
(* C17: whenever a call of detect_duplicates returns, with Ok or with an   *)
(* error, the similarity cache has no entries.                             *)
(***************************************************************************)
C17_ClearedAtReturn ==
    [][(\E c \in Calls : pc[c] # "returned" /\ pc'[c] = "returned")
          => SIMILARITY_CACHE'.map = EmptyMap]_vars

\* the same for the calls of Spec, which never overlap
C17_ClearedAtReturnSerial == pc = "done" => SIMILARITY_CACHE.map = EmptyMap

(***************************************************************************)
(* C18: two overlapping calls share no state: the similarity a call        *)
(* compares to its threshold for its pair (i, j) is that of its own        *)
(* fingerprints i and j, and while a call verifies its pairs no step of    *)
(* the other call removes or alters an entry of the cache.                 *)
(***************************************************************************)
C18_NoSharedState ==
    /\ [](\A c \in Calls : \A p \in DOMAIN pending[c] :
            pending[c][p].sim # <<>> =>
               pending[c][p].sim[1] = ComputeSim(CallStrings(c), p[1], p[2],
                                                 request[c].algorithm))
    /\ [][\A c \in Calls :
            (pc[c] = "verifying" /\ pc'[c] = "verifying") =>
               \A k \in DOMAIN SIMILARITY_CACHE.map :
                  /\ k \in DOMAIN SIMILARITY_CACHE'.map
                  /\ SIMILARITY_CACHE'.map[k] = SIMILARITY_CACHE.map[k]]_vars

(***************************************************************************)
(* C19: within one call no two verify workers are inside an access of the  *)
(* map at the same time when one of them is inserting.                     *)
(***************************************************************************)
C19_MutualExclusion ==
    \A w, v \in Workers :
        (w # v /\ w[1] = v[1] /\ Pos(w) = "in_insert") => ~Inside(v)

(***************************************************************************)
(* C20: deserialize_features of the decoded serialize_features(x)          *)
(* succeeds and gives the first min(|x|, 50) records of x, in order, with  *)
(* x, y, angle and the descriptor bytes unchanged; all of x when x has at  *)
(* most 50 records.                                                        *)
(***************************************************************************)
C20_OrbRoundTrip ==
    pc = "deserialized" =>
        LET x == request.descriptors
        IN /\ result # <<>>
           /\ result[1] = SubSeq(x, 1, Min(Len(x), MaxFeatures))
           /\ Len(x) <= MaxFeatures => result[1] = x

\* a list longer than the cap, of descriptors that are not all alike, one of
\* them with the NaN angle
C20_Witness ==
    /\ pc = "deserialized"
    /\ Len(request.descriptors) > MaxFeatures
    /\ result # <<>>
    /\ Len(result[1]) = MaxFeatures
    /\ result[1][1] # result[1][2]
    /\ \E k \in 1..Len(result[1]) : result[1][k].angle.exponent = 255
    /\ request.descriptors[MaxFeatures + 1] \notin Range(result[1])

\* two f32 scores, held as fractions, are the same number
F32Same(a, b) == a.n * b.d = b.n * a.d

(***************************************************************************)
(* C21: for the bit-hash algorithms the similarity of two fingerprints is  *)
(* symmetric, similarity(x, y) = similarity(y, x), and reflexive,          *)
(* similarity(x, x) = 100.                                                 *)
(***************************************************************************)
C21_SymmetricReflexive ==
    (pc = "returned" /\ request.algorithm \in BitAlgorithms) =>
        /\ F32Same(result.forward, result.backward)
        /\ F32Same(result.self, [n |-> 100, d |-> 1])

\* two different fingerprints whose score is neither 0 nor 100
C21_Witness ==
    /\ pc = "returned"
    /\ request.algorithm \in BitAlgorithms
    /\ request.hash1 # request.hash2
    /\ F32Same(result.forward, result.backward)
    /\ ~F32Same(result.forward, [n |-> 100, d |-> 1])
    /\ ~F32Same(result.forward, [n |-> 0, d |-> 1])
    /\ F32Same(result.self, [n |-> 100, d |-> 1])

(***************************************************************************)
(* C22: for every algorithm and every two fingerprints of it,              *)
(* calculate_similarity gives a score from 0 to 100; the ORB score         *)
(* 100 * matches / min(|D1|, |D2|) does not exceed 100 either, also for    *)
(* feature sets of different sizes.                                        *)
(***************************************************************************)
C22_ScoreRange ==
    pc = "returned" =>
        /\ result.forward.n >= 0
        /\ result.forward.n <= 100 * result.forward.d

(***************************************************************************)
(* C23: invalid input is rejected: the call returns an error and no        *)
(* groups whenever a requested folder does not exist or is not a           *)
(* directory, or the threshold lies outside 0..100.                        *)
(***************************************************************************)
C23_InvalidInputRejected ==
    (pc = "done" /\ (request.folder_state # "dir" \/ request.threshold \notin 0..100))
        => (result.kind = "Err" /\ result.groups = <<>>)

(***************************************************************************)
(* C24: for every candidate pair and every algorithm the score that the    *)
(* verification compares to the threshold is calculate_similarity of the   *)
(* two fingerprints under the chosen algorithm; the bit-vector path,       *)
(* taken for strings of at least 64 characters 0/1 whatever the            *)
(* algorithm, gives no other score.                                        *)
(***************************************************************************)
\* the two fingerprints share a bucket key, so LSH proposes the pair; the
\* keys of ORB fingerprints are left open
CandidatePair ==
    \/ request.algorithm = "ORB"
    \/ Range(generate_bucket_keys(request.hash1, request.algorithm))
         \cap Range(generate_bucket_keys(request.hash2, request.algorithm)) # {}

C24_VerifyScore ==
    (pc = "returned" /\ CandidatePair) => F32Same(result.verify, result.forward)

(***************************************************************************)
(* Connection by the edges passed to union, and what find would return.    *)
(***************************************************************************)
RECURSIVE ReachedBy(_, _)
ReachedBy(edges, seen) ==
    LET more == seen \cup UNION {e \in edges : e \cap seen # {}}
    IN IF more = seen THEN seen ELSE ReachedBy(edges, more)

Connected(x, y) == y \in ReachedBy(candidate_pairs, {x})

\* following parent from x reaches a root within DsuSize steps
RECURSIVE ReachesRoot(_, _, _)
ReachesRoot(parent, x, steps) ==
    \/ parent[x] = x
    \/ steps > 0 /\ ReachesRoot(parent, parent[x], steps - 1)

Forest == \A x \in Elements : ReachesRoot(disjoint_set.parent, x, DsuSize)

FindOf(x) == Root(disjoint_set.parent, x)

(***************************************************************************)
(* C25: after any sequence of union and find calls, find(x) = find(y)      *)
(* exactly if x and y are connected by the edges passed to union; find     *)
(* terminates and returns a root, and its path compression changes no      *)
(* set.                                                                    *)
(***************************************************************************)
C25_UnionFind ==
    /\ [](/\ Forest
          /\ \A x, y \in Elements : (FindOf(x) = FindOf(y)) <=> Connected(x, y))
    /\ [][(\E x \in Elements : DsuFind(x)) =>
            /\ disjoint_set'.parent[result'[2]] = result'[2]
            /\ \A x \in Elements :
                  Root(disjoint_set'.parent, x) = Root(disjoint_set.parent, x)]_vars

\* a find has compressed a path of two links in a set of three elements,
\* next to an element that is alone
C25_Witness ==
    /\ result # <<>>
    /\ result[1] # result[2]
    /\ \E x, y, z \in Elements :
          /\ Cardinality({x, y, z}) = 3
          /\ FindOf(x) = FindOf(y)
          /\ FindOf(y) = FindOf(z)
          /\ {x, z} \notin candidate_pairs
    /\ \E x \in Elements : \A y \in Elements \ {x} : FindOf(y) # FindOf(x)
    /\ \A x \in Elements : disjoint_set.parent[x] = FindOf(x)

(***************************************************************************)
(* C30: after any sequence of union calls, size[r] of every root r is the  *)
(* number of elements whose find is r and 2^rank[r] <= size[r]; union      *)
(* attaches the root of the smaller set under the root of the larger one,  *)
(* so the u8 rank does not overflow.                                       *)
(***************************************************************************)
Roots == {r \in Elements : disjoint_set.parent[r] = r}

C30_Bookkeeping ==
    /\ [](\A r \in Roots :
            /\ disjoint_set.size[r] = Cardinality({x \in Elements : FindOf(x) = r})
            /\ Pow2(disjoint_set.rank[r]) <= disjoint_set.size[r]
            /\ disjoint_set.rank[r] < 8)
    /\ [][\A r \in Roots :
            disjoint_set'.parent[r] # r =>
               disjoint_set.size[r] <= disjoint_set.size[disjoint_set'.parent[r]]]_vars

\* a set of one element has been attached under a set of two, and two sets
\* of equal rank have been joined
C30_Witness ==
    /\ \E r \in Roots : disjoint_set.size[r] = 3 /\ disjoint_set.rank[r] = 1
    /\ \E r \in Roots : disjoint_set.size[r] = 1

\* the points of the circle that are brighter than c + T and those that are
\* darker than c - T, in the integers
BrighterThan(center_val) ==
    {k \in RingPositions :
        RingValues(request.patch)[k] > center_val + fast_threshold}

DarkerThan(center_val) ==
    {k \in RingPositions :
        RingValues(request.patch)[k] < center_val - fast_threshold}

\* nine contiguous positions of the ring, wrapping from 15 to 0
Arc(start) == {(start + j) % 16 : j \in 0..8}

(***************************************************************************)
(* C26: a pixel that passes the accelerator is accepted as a corner        *)
(* exactly if at least 9 contiguous points of the 16-point ring are all    *)
(* brighter than c+T or all darker than c-T, contiguity wrapping around    *)
(* the ring.                                                               *)
(***************************************************************************)
C26_CornerTest ==
    pc = "tested" =>
       (result.is_corner <=>
           \E start \in RingPositions :
              \/ Arc(start) \subseteq BrighterThan(request.center_val)
              \/ Arc(start) \subseteq DarkerThan(request.center_val))

(***************************************************************************)
(* C28: the brightness tests compare with the integers c+T and c-T for     *)
(* every centre intensity c in 0..255 and T = 20: the u8 additions and     *)
(* subtractions neither wrap nor abort, so no point is reported brighter   *)
(* than a centre above 235 or darker than a centre below 20.               *)
(***************************************************************************)
C28_BrightnessTests ==
    /\ pc # "panicked"
    /\ pc \in {"candidate", "skipped", "tested"} =>
          /\ result.brighter_count =
               Cardinality({o \in CompassPoints :
                   request.patch[o] > request.center_val + fast_threshold})
          /\ result.darker_count =
               Cardinality({o \in CompassPoints :
                   request.patch[o] < request.center_val - fast_threshold})
    /\ pc = "tested" =>
          \A k \in RingPositions :
             /\ result.classes[k] = "brighter" <=> k \in BrighterThan(request.center_val)
             /\ result.classes[k] = "darker" <=> k \in DarkerThan(request.center_val)

\* the records of the payload, and the detected keypoints they were written
\* for
PayloadRecords == deserialize_features(Base64Decode(results)[1])[1]

Written ==
    {kp \in Range(request.keypoints) :
        \E k \in 1..Len(PayloadRecords) : PayloadRecords[k].x = kp.x}

(***************************************************************************)
(* C27: for every number of detected keypoints the records written to the  *)
(* payload are the up-to-50 keypoints with the highest corner scores       *)
(* among all detected keypoints.                                           *)
(***************************************************************************)
C27_TopScoring ==
    pc = "extracted" =>
       /\ Len(PayloadRecords) = Min(Len(request.keypoints), MaxFeatures)
       /\ Cardinality(Written) = Len(PayloadRecords)
       /\ \A w \in Written :
             \A u \in Range(request.keypoints) \ Written : F32Geq(w.score, u.score)

(***************************************************************************)
(* C29: for two distinct readable images that both fingerprint,            *)
(* are_images_duplicates returns true exactly if the similarity of their   *)
(* fingerprints under the algorithm reaches the threshold, whatever the    *)
(* file sizes; for Exact it returns true whenever the digests are equal.   *)
(***************************************************************************)
C29_SizeFilterPreserves ==
    (/\ pc = "returned"
     /\ ~request.same_path
     /\ request.file1.content # Bad
     /\ request.file2.content # Bad) =>
       /\ result.kind = "Ok"
       /\ result.value <=>
            F32Geq(calculate_similarity(
                       calculate_hash(request.file1.content, request.algorithm).hash,
                       calculate_hash(request.file2.content, request.algorithm).hash,
                       request.algorithm),
                   request.threshold)

============================================================================
